---- MODULE Spec2Model ----
(***************************************************************************)
(* A model of the af-frontend catalog tool: the delimited-text parser, the *)
(* base-product loader with its tier join, the product and description     *)
(* loaders, the text normalizer, the copy-block renderers, the App         *)
(* component that loads the tables once and keeps the category / base /    *)
(* feature selection, its copy buttons and the clipboard, and the earlier  *)
(* copy-only App with its product cards.                                   *)
(*                                                                         *)
(* Text is a sequence of one-character strings, so that trimming, case     *)
(* folding, quoting and number conversion are computed character by        *)
(* character as the code computes them.                                    *)
(***************************************************************************)
EXTENDS Integers, Sequences, FiniteSets, TLC

VARIABLES
  src,            \* parser harness: the text handed to parseCSV
  rows,           \* parser harness: what parseCSV returned (NotRun before)
  call,           \* function harness: the function called and its arguments
  returned,       \* function harness: what it returned (NotRun before)
  server,         \* the static files of this session and how each request ends
  net,            \* per source: how far its request has come
  bpPromise,      \* the promise loadBaseProducts() returned
  prPromise,      \* the promise loadProducts() returned
  descPromise,    \* the promise loadDescriptions() returned
  bases,          \* App state
  products,
  descriptions,
  loading,
  error,
  category,
  selectedBase,
  features,
  filterText,
  effectPending,  \* the [category, bases] effect is scheduled and has not run
  clipboard,      \* the system clipboard: the text last written, null before
  navigatorClipboard,  \* whether navigator.clipboard.writeText exists
  writes,         \* the navigator.clipboard.writeText() calls not yet settled
  lastCopied,     \* copy-only App state: the "Last copied preview"
  status,         \* copy-only App, per ProductCard: its status line
  timers          \* copy-only App, per ProductCard: its pending timeouts

parseVars == <<src, rows>>

callVars == <<call, returned>>

loadVars == <<server, net, bpPromise, prPromise, descPromise>>

appVars == <<bases, products, descriptions, loading, error, category,
             selectedBase, features, filterText, effectPending>>

copyVars == <<clipboard, navigatorClipboard, writes>>

cardVars == <<lastCopied, status, timers>>

vars == <<src, rows, call, returned, server, net, bpPromise, prPromise, descPromise, bases,
          products, descriptions, loading, error, category, selectedBase,
          features, filterText, effectPending, clipboard, navigatorClipboard,
          writes, lastCopied, status, timers>>

----------------------------------------------------------------------------
(* Characters *)

QUOTE == "\""
COMMA == ","
LF    == "\n"
CR    == "\r"
SP    == " "
TAB   == "\t"

\* String.prototype.trim strips these (the ones the model's alphabets contain)
WhiteSpace == {SP, TAB, LF, CR}

\* JS undefined (an out-of-range array read, a missing column); no text equals
\* it because text holds one-character strings only
undefined == <<"undefined">>

\* JS null
null == <<"null">>

\* the harness value of a result that has not been computed yet
NotRun == <<"not-run">>

----------------------------------------------------------------------------
(* String primitives of the host language, computed on character sequences *)

\* v ?? ""
OrEmpty(v) == IF v = undefined THEN <<>> ELSE v

IsBlankChar(c) == c \in WhiteSpace

\* String.prototype.trim
trim(s) ==
  LET keep == {i \in 1..Len(s) : ~IsBlankChar(s[i])} IN
  IF keep = {} THEN <<>>
  ELSE LET lo == CHOOSE i \in keep : \A j \in keep : i <= j
           hi == CHOOSE i \in keep : \A j \in keep : i >= j
       IN SubSeq(s, lo, hi)

UPPER == <<"A", "B", "C", "D", "E", "F", "G", "H", "I", "J", "K", "L", "M", "N", "O", "P", "Q", "R", "S", "T", "U", "V", "W", "X", "Y", "Z">>
LOWER == <<"a", "b", "c", "d", "e", "f", "g", "h", "i", "j", "k", "l", "m", "n", "o", "p", "q", "r", "s", "t", "u", "v", "w", "x", "y", "z">>

\* String.prototype.toLowerCase
toLowerCase(s) ==
  [i \in 1..Len(s) |->
     IF \E k \in 1..26 : UPPER[k] = s[i]
     THEN LOWER[CHOOSE k \in 1..26 : UPPER[k] = s[i]]
     ELSE s[i]]

DIGITS == <<"0", "1", "2", "3", "4", "5", "6", "7", "8", "9">>

IsDigit(c) == \E k \in 1..10 : DIGITS[k] = c

DigitVal(c) == (CHOOSE k \in 1..10 : DIGITS[k] = c) - 1

AllDigits(s) == \A i \in 1..Len(s) : IsDigit(s[i])

RECURSIVE IntVal(_)
IntVal(s) == IF s = <<>> THEN 0
             ELSE 10 * IntVal(SubSeq(s, 1, Len(s) - 1)) + DigitVal(s[Len(s)])

\* Numbers are kept in thousandths: [kind |-> "num", milli |-> n], or the
\* non-finite values NaN, +Infinity, -Infinity
Num(m) == [kind |-> "num", milli |-> m]
NaN == [kind |-> "nan", milli |-> 0]
PosInfinity == [kind |-> "inf", milli |-> 1]
NegInfinity == [kind |-> "inf", milli |-> -1]

\* the fraction digits of a decimal literal, in thousandths (the model's
\* texts carry at most three fraction digits)
FracMilli(f) == IntVal(SubSeq(f \o <<"0", "0", "0">>, 1, 3))

\* an unsigned decimal literal: digits, digits "." digits?, "." digits
UnsignedValue(u) ==
  LET dots == {i \in 1..Len(u) : u[i] = "."} IN
  IF u = <<"I", "n", "f", "i", "n", "i", "t", "y">> THEN PosInfinity
  ELSE IF dots = {} THEN (IF u # <<>> /\ AllDigits(u) THEN Num(1000 * IntVal(u)) ELSE NaN)
  ELSE IF Cardinality(dots) > 1 THEN NaN
  ELSE LET d == CHOOSE i \in dots : TRUE
           ip == SubSeq(u, 1, d - 1)
           fp == SubSeq(u, d + 1, Len(u))
       IN IF Len(u) > 1 /\ AllDigits(ip) /\ AllDigits(fp)
          THEN Num(1000 * IntVal(ip) + FracMilli(fp))
          ELSE NaN

Negate(n) == [kind |-> n.kind, milli |-> 0 - n.milli]

\* Number(v) for a text or undefined: surrounding white space is skipped, the
\* empty text is 0, a signed decimal literal or Infinity is its value, and
\* anything else is NaN.  (Exponent and radix-prefixed literals are outside
\* the texts the model feeds it.)
Number(v) ==
  IF v = undefined THEN NaN
  ELSE LET t == trim(v) IN
       IF t = <<>> THEN Num(0)
       ELSE IF t[1] = "-" THEN
              (LET u == UnsignedValue(Tail(t)) IN IF u.kind = "nan" THEN NaN ELSE Negate(u))
       ELSE IF t[1] = "+" THEN UnsignedValue(Tail(t))
       ELSE UnsignedValue(t)

\* Number.isFinite
isFinite(n) == n.kind = "num"

----------------------------------------------------------------------------
(* parseCSV *)

\* a quote met inside a quoted field is an escape when the next character
\* is a quote too (src[i + 1] past the end is undefined, not a quote)
EscapedQuoteNever(s, i) == FALSE

EscapedQuote(s, i) == i + 1 <= Len(s) /\ s[i + 1] = QUOTE

\* the row left over at end of input is emitted unless it is the single
\* empty field that a final line terminator leaves behind
\* (final-row rules that always, or never, emit the last row)
EmitLastAlways(last) == TRUE

EmitLastNever(last) == FALSE

EmitLast(last) == Len(last) > 1 \/ (Len(last) = 1 /\ last[1] # <<>>)

\* the loop variables of parseCSV; next is the position the loop reads next
\* (the i++ of an escaped quote moves it past the second quote)
ParseStart == [rows |-> <<>>, row |-> <<>>, field |-> <<>>, inQuotes |-> FALSE, next |-> 1]

\* one pass of the loop body, at position i
parseCSVStep(s, st, i) ==
  IF i < st.next THEN st
  ELSE LET c == s[i] IN
       IF st.inQuotes
       THEN IF c = QUOTE
            THEN IF EscapedQuote(s, i)
                 THEN [st EXCEPT !.field = Append(@, QUOTE), !.next = i + 2]
                 ELSE [st EXCEPT !.inQuotes = FALSE, !.next = i + 1]
            ELSE [st EXCEPT !.field = Append(@, c), !.next = i + 1]
       ELSE IF c = QUOTE THEN [st EXCEPT !.inQuotes = TRUE, !.next = i + 1]
            ELSE IF c = COMMA
                 THEN [st EXCEPT !.row = Append(@, st.field), !.field = <<>>, !.next = i + 1]
            ELSE IF c = LF
                 THEN [st EXCEPT !.rows = Append(@, Append(st.row, st.field)),
                                 !.row = <<>>, !.field = <<>>, !.next = i + 1]
            ELSE IF c = CR THEN [st EXCEPT !.next = i + 1]
            ELSE [st EXCEPT !.field = Append(@, c), !.next = i + 1]

\* the loop over positions lo..hi, left to right (evaluated by halves, the
\* left half first, to keep the evaluation shallow)
RECURSIVE parseCSVLoop(_, _, _, _)
parseCSVLoop(s, st, lo, hi) ==
  IF lo > hi THEN st
  ELSE IF lo = hi THEN parseCSVStep(s, st, lo)
  ELSE LET mid == (lo + hi) \div 2
           left == parseCSVLoop(s, st, lo, mid)
       IN IF left.next > lo THEN parseCSVLoop(s, left, mid + 1, hi) ELSE left

parseCSV(s) ==
  LET st == parseCSVLoop(s, ParseStart, 1, Len(s))
      last == Append(st.row, st.field)
  IN IF EmitLast(last) THEN Append(st.rows, last) ELSE st.rows

----------------------------------------------------------------------------
(* Column lookup shared by the loaders *)

\* rows.shift() || [] : the first row, or no header at all
HeaderOf(rws) == IF rws = <<>> THEN <<>> ELSE Head(rws)

DataRows(rws) == IF rws = <<>> THEN <<>> ELSE Tail(rws)

TrimAll(hs) == [i \in 1..Len(hs) |-> trim(hs[i])]

\* Object.fromEntries(header.map((h, i) => [h.trim(), i])), over the trimmed
\* column names: the position of a column by name, the last one when a name
\* repeats; 0 stands for the undefined of a name that is no column
Idx(names, name) ==
  LET hits == {i \in 1..Len(names) : names[i] = name} IN
  IF hits = {} THEN 0 ELSE CHOOSE i \in hits : \A j \in hits : i >= j

\* r[idx.name]: undefined past the end of the row or for a missing column
Cell(r, k) == IF k \in 1..Len(r) THEN r[k] ELSE undefined

SomeNonBlankAnyField(r) == Len(r) > 0

\* r.some((c) => String(c ?? "").trim() !== "")
SomeNonBlank(r) == \E i \in 1..Len(r) : trim(OrEmpty(r[i])) # <<>>

TRUE_TEXT == <<"t", "r", "u", "e">>

\* String(v ?? "").trim().toLowerCase() === "true"
toBool(v) == toLowerCase(trim(OrEmpty(v))) = TRUE_TEXT

\* Number(v), or 0 when that is not finite
toNum(v) == LET n == Number(v) IN IF isFinite(n) THEN n ELSE Num(0)

\* the earlier loader's toNum: Number(String(v ?? "").trim())
toNumV1(v) == LET n == Number(trim(OrEmpty(v))) IN IF isFinite(n) THEN n ELSE Num(0)

N_code == <<"c", "o", "d", "e">>
N_brand == <<"b", "r", "a", "n", "d">>
N_model_name == <<"m", "o", "d", "e", "l", "_", "n", "a", "m", "e">>
N_label == <<"l", "a", "b", "e", "l">>
N_category == <<"c", "a", "t", "e", "g", "o", "r", "y">>
N_tier == <<"t", "i", "e", "r">>
N_organic == <<"o", "r", "g", "a", "n", "i", "c">>
N_usa_made == <<"u", "s", "a", "_", "m", "a", "d", "e">>
N_active == <<"a", "c", "t", "i", "v", "e">>
N_retail_price == <<"r", "e", "t", "a", "i", "l", "_", "p", "r", "i", "c", "e">>
N_fit_notes == <<"f", "i", "t", "_", "n", "o", "t", "e", "s">>

----------------------------------------------------------------------------
(* loadBaseProducts with the tier join *)

\* the Map built by rows.forEach: key column -> tier column, both trimmed, a
\* row with an empty key skipped, a later row replacing an earlier one
BuildMap(text, keyName) ==
  LET rws == parseCSV(text)
      h == TrimAll(HeaderOf(rws))
      body == DataRows(rws)
      key(r) == trim(OrEmpty(Cell(r, Idx(h, keyName))))
      val(r) == trim(OrEmpty(Cell(r, Idx(h, N_tier))))
      keys == {key(body[i]) : i \in 1..Len(body)} \ {<<>>}
  IN [k \in keys |->
        val(body[CHOOSE i \in 1..Len(body) :
                   /\ key(body[i]) = k
                   /\ \A j \in 1..Len(body) : key(body[j]) = k => j <= i])]

\* Map.prototype.get
MapGet(m, k) == IF k \in DOMAIN m THEN m[k] ELSE undefined

\* a || b over text and undefined: the left operand unless it is "" or undefined
OrElse(a, b) == IF a = undefined \/ a = <<>> THEN b ELSE a

ResolveTierNoBrandDefault(tierFromSource, code, brand, tierMap, brandMap) ==
  OrElse(OrElse(tierFromSource, MapGet(tierMap, code)), <<>>)

ResolveTierBrandFirst(tierFromSource, code, brand, tierMap, brandMap) ==
  OrElse(OrElse(OrElse(tierFromSource, MapGet(brandMap, brand)), MapGet(tierMap, code)), <<>>)

\* tierFromSource || tierMap.get(code) || brandMap.get(brand) || ""
ResolveTier(tierFromSource, code, brand, tierMap, brandMap) ==
  OrElse(OrElse(OrElse(tierFromSource, MapGet(tierMap, code)), MapGet(brandMap, brand)), <<>>)

BaseRecord(r, h, tierMap, brandMap) ==
  LET f(name) == trim(OrEmpty(Cell(r, Idx(h, name))))
      code == f(N_code)
      brand == f(N_brand)
  IN [code |-> code,
      brand |-> brand,
      model_name |-> f(N_model_name),
      label |-> f(N_label),
      category |-> f(N_category),
      tier |-> ResolveTier(f(N_tier), code, brand, tierMap, brandMap),
      organic |-> toBool(Cell(r, Idx(h, N_organic))),
      usa_made |-> toBool(Cell(r, Idx(h, N_usa_made))),
      active |-> toBool(Cell(r, Idx(h, N_active))),
      retail_price |-> toNum(Cell(r, Idx(h, N_retail_price))),
      fit_notes |-> f(N_fit_notes)]

\* the records loadBaseProducts returns once the three texts are read
loadBaseProducts(bpText, tierText, brandText) ==
  LET tierMap == BuildMap(tierText, N_code)
      brandMap == BuildMap(brandText, N_brand)
      rws == parseCSV(bpText)
      h == TrimAll(HeaderOf(rws))
      kept == SelectSeq(DataRows(rws), SomeNonBlank)
  IN [i \in 1..Len(kept) |-> BaseRecord(kept[i], h, tierMap, brandMap)]

----------------------------------------------------------------------------
(* The earlier loadBaseProducts: no tier join, fields taken as they are *)

BaseRecordV1(r, h) ==
  [code |-> Cell(r, Idx(h, N_code)),
   brand |-> Cell(r, Idx(h, N_brand)),
   model_name |-> Cell(r, Idx(h, N_model_name)),
   label |-> Cell(r, Idx(h, N_label)),
   category |-> Cell(r, Idx(h, N_category)),
   tier |-> Cell(r, Idx(h, N_tier)),
   organic |-> toBool(Cell(r, Idx(h, N_organic))),
   usa_made |-> toBool(Cell(r, Idx(h, N_usa_made))),
   active |-> toBool(Cell(r, Idx(h, N_active))),
   retail_price |-> toNumV1(Cell(r, Idx(h, N_retail_price))),
   fit_notes |-> Cell(r, Idx(h, N_fit_notes))]

loadBaseProductsV1(bpText) ==
  LET rws == parseCSV(bpText)
      h == TrimAll(HeaderOf(rws))
      kept == SelectSeq(DataRows(rws), SomeNonBlank)
  IN [i \in 1..Len(kept) |-> BaseRecordV1(kept[i], h)]

----------------------------------------------------------------------------
(* loadProducts *)

N_sku == <<"s", "k", "u">>
N_base_code == <<"b", "a", "s", "e", "_", "c", "o", "d", "e">>
N_title == <<"t", "i", "t", "l", "e">>
N_color == <<"c", "o", "l", "o", "r">>
N_size == <<"s", "i", "z", "e">>
N_image_src == <<"i", "m", "a", "g", "e", "_", "s", "r", "c">>
N_enabled == <<"e", "n", "a", "b", "l", "e", "d">>

ProductRecord(r, h) ==
  [sku |-> Cell(r, Idx(h, N_sku)),
   base_code |-> Cell(r, Idx(h, N_base_code)),
   title |-> Cell(r, Idx(h, N_title)),
   color |-> Cell(r, Idx(h, N_color)),
   size |-> Cell(r, Idx(h, N_size)),
   image_src |-> Cell(r, Idx(h, N_image_src)),
   enabled |-> toBool(Cell(r, Idx(h, N_enabled)))]

loadProducts(prText) ==
  LET rws == parseCSV(prText)
      h == TrimAll(HeaderOf(rws))
      kept == SelectSeq(DataRows(rws), SomeNonBlank)
  IN [i \in 1..Len(kept) |-> ProductRecord(kept[i], h)]

----------------------------------------------------------------------------
(* The static files the session reads.  A table is written as rows of field
   texts and served as delimited text: fields joined by commas, every line
   ended by a newline. *)

\* the concatenation of a sequence of sequences
RECURSIVE ConcatAll(_)
ConcatAll(ss) == IF ss = <<>> THEN <<>> ELSE Head(ss) \o ConcatAll(Tail(ss))

RECURSIVE JoinWith(_, _)
JoinWith(ss, sep) ==
  IF ss = <<>> THEN <<>>
  ELSE IF Len(ss) = 1 THEN ss[1]
  ELSE ss[1] \o sep \o JoinWith(Tail(ss), sep)

Line(fields) == JoinWith(fields, <<COMMA>>) \o <<LF>>

CsvText(header, body) ==
  Line(header) \o ConcatAll([i \in 1..Len(body) |-> Line(body[i])])

E == <<>>

\* base-product rows, fields in the order of BaseHeader
BasePool == <<
  <<<<"A", "1">>, <<"A", "c", "m", "e">>, <<"M">>, <<"L">>, <<"t", "a", "n", "k">>, <<"p", "r", "e", "m", "i", "u", "m">>, <<"t", "r", "u", "e">>, <<"t", "r", "u", "e">>, <<"t", "r", "u", "e">>, <<"1", "2">>, E>>,
  <<<<"A", "1">>, <<"A", "c", "m", "e">>, <<"M">>, <<"L">>, <<"t", "a", "n", "k">>, E, <<"T", "R", "U", "E">>, <<"f", "a", "l", "s", "e">>, <<"t", "r", "u", "e">>, <<"-", "5">>, E>>,
  <<<<"B", "2">>, <<"A", "c", "m", "e">>, <<"M">>, <<"T", "r", "i", "b", "l", "e", "n", "d">>, <<"t", "a", "n", "k">>, <<" ">>, <<" ", "T", "r", "u", "e", " ">>, <<"y", "e", "s">>, <<"t", "r", "u", "e">>, <<"a", "b", "c">>, E>>,
  <<<<"C", "3">>, <<"A", "c", "m", "e">>, <<"M">>, <<"L">>, <<"c", "r", "e", "w">>, E, <<"f", "a", "l", "s", "e">>, <<"t", "r", "u", "e">>, <<"t", "r", "u", "e">>, <<"1", ".", "5">>, <<"t", "r", "i", "-", "b", "l", "e", "n", "d">>>>,
  <<<<"C", "3">>, <<"Z", "e", "d">>, <<"M">>, <<"L">>, <<"c", "r", "e", "w">>, E, E, E, <<"f", "a", "l", "s", "e">>, E, E>>,
  <<<<"A", "1">>, <<"Z", "e", "d">>, <<"M">>, <<"L">>, <<"c", "r", "e", "w">>, E, <<"t", "r", "u", "e">>, E, <<"T", "r", "u", "e">>, <<"I", "n", "f", "i", "n", "i", "t", "y">>, E>>,
  <<<<"B", "2">>, <<"Z", "e", "d">>, <<"M">>, <<"L">>, <<"t", "a", "n", "k">>, <<" ", "m", "i", "d", " ">>, <<"f", "a", "l", "s", "e">>, <<"f", "a", "l", "s", "e">>, <<"t", "r", "u", "e">>, <<" ", "7", " ">>, E>>,
  <<E, <<"Z", "e", "d">>, <<"M">>, <<"L">>, <<"t", "a", "n", "k">>, <<"m", "i", "d">>, <<"t", "r", "u", "e">>, <<"f", "a", "l", "s", "e">>, <<"t", "r", "u", "e">>, <<"9">>, E>>,
  <<<<" ">>, <<"A", "c", "m", "e">>, <<"M">>, <<"L">>, <<"c", "r", "e", "w">>, E, <<"f", "a", "l", "s", "e">>, <<"f", "a", "l", "s", "e">>, <<"t", "r", "u", "e">>, <<"3">>, E>>,
  <<E, E, E, E, E, E, E, E, E, E, E>>,
  <<<<" ">>, E, E, E, E, <<" ">>, E, E, E, E, <<" ">>>>,
  <<<<"C", "3">>>>,
  <<<<"D", "4">>, <<"A", "c", "m", "e">>, <<"M">>, <<"L">>, E, <<"c", "o", "r", "e">>, <<"f", "a", "l", "s", "e">>, <<"f", "a", "l", "s", "e">>, <<"t", "r", "u", "e">>, <<"4">>, E>>
>>

BaseHeader == <<N_code, N_brand, N_model_name, N_label, N_category, N_tier,
                N_organic, N_usa_made, N_active, N_retail_price, N_fit_notes>>

\* the columns a served base-product table carries: all of them, or all but
\* usa_made and retail_price (with padded column names)
HeaderColumns == <<
  <<1, 2, 3, 4, 5, 6, 7, 8, 9, 10, 11>>,
  <<1, 2, 3, 4, 5, 6, 7, 9, 11>>
>>

Pad(name) == <<SP>> \o name \o <<SP>>

ServedHeader(hv) ==
  [j \in 1..Len(HeaderColumns[hv]) |->
     IF hv = 1 THEN BaseHeader[HeaderColumns[hv][j]] ELSE Pad(BaseHeader[HeaderColumns[hv][j]])]

\* the fields of pool row k that a table with header hv serves
ServedRow(k, hv) ==
  LET cols == SelectSeq(HeaderColumns[hv], LAMBDA c : c <= Len(BasePool[k]))
  IN [j \in 1..Len(cols) |-> BasePool[k][cols[j]]]

BaseText(table, hv) ==
  CsvText(ServedHeader(hv), [i \in 1..Len(table) |-> ServedRow(table[i], hv)])

\* per-code tier overrides and per-brand tier defaults: (key, tier) rows
TierTables == <<
  << <<<<"A", "1">>, <<"s", "t", "d">>>>, <<<<"B", "2">>, E>> >>,
  << >>
>>

BrandTables == <<
  << <<<<"A", "c", "m", "e">>, <<"c", "o", "r", "e">>>> >>,
  << >>
>>

TierText(t) == CsvText(<<N_code, N_tier>>, TierTables[t])

BrandText(t) == CsvText(<<N_brand, N_tier>>, BrandTables[t])

\* product-variant rows, fields in the order of ProductHeader
ProductPool == <<
  <<<<"S", "1">>, <<"A", "1">>, <<"T">>, <<"r", "e", "d">>, <<"M">>, <<"i">>, <<"t", "r", "u", "e">>>>,
  <<<<"S", "2">>, <<"A", "1">>, <<"T">>, <<"b", "l", "u", "e">>, <<"L">>, <<"i">>, <<"f", "a", "l", "s", "e">>>>,
  <<<<"S", "3">>, <<"C", "3">>, <<"T">>, <<"r", "e", "d">>, <<"S">>, <<"i">>, <<"T", "R", "U", "E">>>>,
  <<<<"S", "4">>, <<"B", "2">>, <<"T">>, <<"b", "l", "u", "e">>, <<"M">>, <<"i">>, <<"t", "r", "u", "e">>>>,
  <<E, E, E, E, E, E, E>>
>>

ProductHeader == <<N_sku, N_base_code, N_title, N_color, N_size, N_image_src, N_enabled>>

ProductText(table) == CsvText(ProductHeader, [i \in 1..Len(table) |-> ProductPool[table[i]]])

\* descriptions.json: an object of code -> text, the JSON null, or a body
\* that is not JSON
DescDocs == <<
  [kind |-> "object", map |-> (<<"A", "1">> :> <<"s", "o", "f", "t", " ", "t", "e", "e">> @@ <<"C", "3">> :> <<" ">>)],
  [kind |-> "null", map |-> <<>>],
  [kind |-> "invalid", map |-> <<>>]
>>

----------------------------------------------------------------------------
(* Requests and promises *)

Sources == {"bp", "tier", "brand", "pr", "desc"}

\* the three reads loadBaseProducts awaits together
JoinSources == {"bp", "tier", "brand"}

Outcomes == {"ok", "http_error", "network_error"}

\* the sources a session requests: the earlier loadBaseProducts (version 1)
\* reads the base-product table alone
Requested(version) == IF version = 1 THEN {"bp", "pr", "desc"} ELSE Sources

Ok(s) == server.outcome[s] = "ok"

Pending == [state |-> "pending", value |-> <<>>, reason |-> null]
Fulfilled(v) == [state |-> "fulfilled", value |-> v, reason |-> null]
Rejected(r) == [state |-> "rejected", value |-> <<>>, reason |-> r]

\* the message of a fetch() that rejects
NetworkError == <<"Failed to fetch">>

\* `Failed to load <file>: <status>`
FailedToLoad == [bp |-> <<"Failed to load base_products.csv: 404">>,
                 tier |-> <<"Failed to load tier_map.csv: 404">>,
                 brand |-> <<"Failed to load brand_tier_map.csv: 404">>,
                 pr |-> <<"Failed to load products.csv: 404">>]

\* the text a source serves
TextOf(s) ==
  IF s = "bp" THEN BaseText(server.table, server.hv)
  ELSE IF s = "tier" THEN TierText(server.tierTable)
  ELSE IF s = "brand" THEN BrandText(server.brandTable)
  ELSE ProductText(server.prTable)

\* a response whose body the loader starts to read: res.text() / res.json()
\* after the res.ok check; the joining loader checks all three responses
\* before it reads any
StartsReading(n, s) ==
  /\ n[s] = "responded"
  /\ Ok(s)
  /\ (server.version = 2 /\ s \in JoinSources) =>
        \A g \in JoinSources : n[g] = "responded" /\ Ok(g)

AfterResponse(n) == [s \in Sources |-> IF StartsReading(n, s) THEN "reading" ELSE n[s]]

\* loadBaseProducts(), tier-join version: Promise.all over the three fetches,
\* the three res.ok checks in order, Promise.all over the three texts
BaseJoinSettled(n) ==
  IF \E g \in JoinSources : n[g] = "failed" THEN Rejected(NetworkError)
  ELSE IF \E g \in JoinSources : n[g] = "pending" THEN Pending
  ELSE IF ~Ok("bp") THEN Rejected(FailedToLoad["bp"])
  ELSE IF ~Ok("tier") THEN Rejected(FailedToLoad["tier"])
  ELSE IF ~Ok("brand") THEN Rejected(FailedToLoad["brand"])
  ELSE IF \E g \in JoinSources : n[g] # "read" THEN Pending
  ELSE Fulfilled(loadBaseProducts(TextOf("bp"), TextOf("tier"), TextOf("brand")))

\* loadBaseProducts(), earlier version: one fetch, the res.ok check, the text
BaseV1Settled(n) ==
  IF n["bp"] = "failed" THEN Rejected(NetworkError)
  ELSE IF n["bp"] = "pending" THEN Pending
  ELSE IF ~Ok("bp") THEN Rejected(FailedToLoad["bp"])
  ELSE IF n["bp"] # "read" THEN Pending
  ELSE Fulfilled(loadBaseProductsV1(TextOf("bp")))

BaseSettled(n) == IF server.version = 1 THEN BaseV1Settled(n) ELSE BaseJoinSettled(n)

\* loadProducts()
ProductsSettled(n) ==
  IF n["pr"] = "failed" THEN Rejected(NetworkError)
  ELSE IF n["pr"] = "pending" THEN Pending
  ELSE IF ~Ok("pr") THEN Rejected(FailedToLoad["pr"])
  ELSE IF n["pr"] # "read" THEN Pending
  ELSE Fulfilled(loadProducts(TextOf("pr")))

\* loadDescriptions(): {} for a failed request, a failure status or a body
\* that does not parse; otherwise what the body parses to
DescriptionsSettled(n) ==
  IF n["desc"] = "failed" THEN Fulfilled(<<>>)
  ELSE IF n["desc"] = "pending" THEN Pending
  ELSE IF ~Ok("desc") THEN Fulfilled(<<>>)
  ELSE IF n["desc"] # "read" THEN Pending
  ELSE LET doc == DescDocs[server.descDoc] IN
       IF doc.kind = "invalid" THEN Fulfilled(<<>>)
       ELSE IF doc.kind = "null" THEN Fulfilled(null)
       ELSE Fulfilled(doc.map)

----------------------------------------------------------------------------
(* App *)

\* the state after the first render: the useState initial values, the three
\* loader promises pending
AppMounted ==
  /\ bpPromise = Pending
  /\ prPromise = Pending
  /\ descPromise = Pending
  /\ bases = <<>>
  /\ products = <<>>
  /\ descriptions = <<>>
  /\ loading = TRUE
  /\ error = null
  /\ category = null
  /\ selectedBase = null
  /\ features = {}
  /\ filterText = <<>>
  /\ effectPending = FALSE

\* nothing on the clipboard, no write under way
Browser(api) == clipboard = null /\ navigatorClipboard = api /\ writes = <<>>

\* no copy-only App in this session
NoCards == lastCopied = <<>> /\ status = <<>> /\ timers = <<>>

IsActive(r) == r.active

IsEnabled(r) == r.enabled

\* !category
NoCategory(c) == c = null \/ c = undefined \/ c = <<>>

\* activeBases[0]?.category ?? null
FirstCategory(activeBases) ==
  IF activeBases = <<>> THEN null
  ELSE IF activeBases[1].category = undefined THEN null
  ELSE activeBases[1].category

\* (a load effect that stores each table as soon as its own loader is done)
LoadEffectPiecewise(bp, pr, desc) ==
  IF ~loading THEN UNCHANGED appVars
  ELSE /\ bases' = (IF bp.state = "fulfilled" THEN SelectSeq(bp.value, IsActive) ELSE bases)
       /\ products' = (IF pr.state = "fulfilled" THEN SelectSeq(pr.value, IsEnabled) ELSE products)
       /\ error' = (IF bp.state = "rejected" THEN bp.reason
                    ELSE IF pr.state = "rejected" THEN pr.reason ELSE error)
       /\ loading' = ~(\/ bp.state = "rejected" \/ pr.state = "rejected"
                       \/ (/\ bp.state = "fulfilled" /\ pr.state = "fulfilled"
                           /\ desc.state = "fulfilled"))
       /\ category' = (IF loading' \/ error' # null THEN category
                       ELSE FirstCategory(bases'))
       /\ descriptions' = (IF loading' \/ error' # null \/ desc.value = null
                           THEN descriptions ELSE desc.value)
       /\ effectPending' = (~loading' /\ error' = null)
       /\ UNCHANGED <<selectedBase, features, filterText>>

\* (a load effect that does not wait for the descriptions: it takes them if
\* they are there when the two tables are)
LoadEffectNoWait(bp, pr, desc) ==
  IF ~loading THEN UNCHANGED appVars
  ELSE IF bp.state = "rejected" \/ pr.state = "rejected"
  THEN /\ error' = (IF bp.state = "rejected" THEN bp.reason ELSE pr.reason)
       /\ loading' = FALSE
       /\ UNCHANGED <<bases, products, descriptions, category, selectedBase,
                      features, filterText, effectPending>>
  ELSE IF bp.state = "fulfilled" /\ pr.state = "fulfilled"
  THEN LET activeBases == SelectSeq(bp.value, IsActive) IN
       /\ bases' = activeBases
       /\ products' = SelectSeq(pr.value, IsEnabled)
       /\ descriptions' = (IF desc.state # "fulfilled" \/ desc.value = null
                           THEN <<>> ELSE desc.value)
       /\ category' = FirstCategory(activeBases)
       /\ loading' = FALSE
       /\ effectPending' = TRUE
       /\ UNCHANGED <<error, selectedBase, features, filterText>>
  ELSE UNCHANGED appVars

\* (a load effect without its finally block: setLoading(false) at the end
\* of the try block only)
LoadEffectNoFinally(bp, pr, desc) ==
  IF ~loading \/ error # null THEN UNCHANGED appVars
  ELSE IF bp.state = "rejected" \/ pr.state = "rejected"
  THEN /\ error' = (IF bp.state = "rejected" THEN bp.reason ELSE pr.reason)
       /\ UNCHANGED <<bases, products, descriptions, loading, category, selectedBase,
                      features, filterText, effectPending>>
  ELSE IF bp.state = "fulfilled" /\ pr.state = "fulfilled" /\ desc.state = "fulfilled"
  THEN LET activeBases == SelectSeq(bp.value, IsActive) IN
       /\ bases' = activeBases
       /\ products' = SelectSeq(pr.value, IsEnabled)
       /\ descriptions' = (IF desc.value = null THEN <<>> ELSE desc.value)
       /\ category' = FirstCategory(activeBases)
       /\ loading' = FALSE
       /\ effectPending' = TRUE
       /\ UNCHANGED <<error, selectedBase, features, filterText>>
  ELSE UNCHANGED appVars

\* the body of the load effect after its await: the try block when the three
\* promises are fulfilled, the catch block at the first rejection, and the
\* finally block; nothing once it has run
LoadEffect(bp, pr, desc) ==
  IF ~loading THEN UNCHANGED appVars
  ELSE IF bp.state = "rejected" \/ pr.state = "rejected"
  THEN /\ error' = (IF bp.state = "rejected" THEN bp.reason ELSE pr.reason)
       /\ loading' = FALSE
       /\ UNCHANGED <<bases, products, descriptions, category, selectedBase,
                      features, filterText, effectPending>>
  ELSE IF bp.state = "fulfilled" /\ pr.state = "fulfilled" /\ desc.state = "fulfilled"
  THEN LET activeBases == SelectSeq(bp.value, IsActive) IN
       /\ bases' = activeBases
       /\ products' = SelectSeq(pr.value, IsEnabled)
       /\ descriptions' = (IF desc.value = null THEN <<>> ELSE desc.value)
       /\ category' = FirstCategory(activeBases)
       /\ loading' = FALSE
       /\ effectPending' = TRUE
       /\ UNCHANGED <<error, selectedBase, features, filterText>>
  ELSE UNCHANGED appVars

\* what follows an event on the network: the loaders' continuations, then
\* the App's
Continue(n) ==
  LET bp == IF bpPromise.state = "pending" THEN BaseSettled(n) ELSE bpPromise
      pr == IF prPromise.state = "pending" THEN ProductsSettled(n) ELSE prPromise
      desc == IF descPromise.state = "pending" THEN DescriptionsSettled(n) ELSE descPromise
  IN /\ net' = n
     /\ bpPromise' = bp
     /\ prPromise' = pr
     /\ descPromise' = desc
     /\ LoadEffect(bp, pr, desc)

\* a fetch() settles: with a response, or rejected
FetchSettle(s) ==
  /\ s \in Requested(server.version)
  /\ net[s] = "pending"
  /\ Continue(AfterResponse([net EXCEPT ![s] =
        IF server.outcome[s] = "network_error" THEN "failed" ELSE "responded"]))
  /\ UNCHANGED <<src, rows, callVars, copyVars, cardVars, server>>

\* res.text() / res.json() settles
BodyRead(s) ==
  /\ net[s] = "reading"
  /\ Continue([net EXCEPT ![s] = "read"])
  /\ UNCHANGED <<src, rows, callVars, copyVars, cardVars, server>>

\* something is rendered beyond the loading, error and empty messages, and
\* the effects of the last render have run
Rendered == ~loading /\ error = null /\ ~NoCategory(category) /\ ~effectPending

categories == {bases[i].category : i \in 1..Len(bases)}

basesForCategory == SelectSeq(bases, LAMBDA r : r.category = category)

\* the effect on [category, bases]
CategoryEffect ==
  /\ effectPending
  /\ effectPending' = FALSE
  /\ IF NoCategory(category)
     THEN UNCHANGED <<selectedBase, features, filterText>>
     ELSE /\ selectedBase' = (IF basesForCategory # <<>>
                              THEN basesForCategory[1].code ELSE selectedBase)
          /\ features' = {}
          /\ filterText' = <<>>
  /\ UNCHANGED <<src, rows, callVars, copyVars, cardVars, loadVars, bases, products, descriptions, loading,
                 error, category>>

\* a category chip
ClickCategory(c) ==
  /\ Rendered
  /\ c \in categories
  /\ category' = c
  /\ effectPending' = (c # category)
  /\ UNCHANGED <<src, rows, callVars, copyVars, cardVars, loadVars, bases, products, descriptions, loading,
                 error, selectedBase, features, filterText>>

\* a base button
ClickBase(i) ==
  /\ Rendered
  /\ i \in 1..Len(basesForCategory)
  /\ selectedBase' = basesForCategory[i].code
  /\ UNCHANGED <<src, rows, callVars, copyVars, cardVars, loadVars, bases, products, descriptions, loading,
                 error, category, features, filterText, effectPending>>

\* s contains sub
Contains(s, sub) ==
  \E i \in 1..(Len(s) - Len(sub) + 1) : SubSeq(s, i, i + Len(sub) - 1) = sub

\* /triblend/i.test(v)
MatchesTriblend(v) == Contains(toLowerCase(OrEmpty(v)), <<"t", "r", "i", "b", "l", "e", "n", "d">>)

\* /tri[- ]?blend/i.test(v)
MatchesTriBlend(v) ==
  LET t == toLowerCase(OrEmpty(v)) IN
  Contains(t, <<"t", "r", "i", "b", "l", "e", "n", "d">>) \/ Contains(t, <<"t", "r", "i", "-", "b", "l", "e", "n", "d">>) \/ Contains(t, <<"t", "r", "i", " ", "b", "l", "e", "n", "d">>)

FeatureCodes == {"organic", "usa_made", "triblend"}

AnyBase(P(_)) == \E i \in 1..Len(basesForCategory) : P(basesForCategory[i])

canOrganic == AnyBase(LAMBDA b : b.organic)

canUSAMade == AnyBase(LAMBDA b : b.usa_made)

canTriblend ==
  /\ category \in {<<"s", "h", "o", "r", "t", "_", "t", "e", "e">>, <<"t", "a", "n", "k">>}
  /\ AnyBase(LAMBDA b : \/ MatchesTriblend(b.label)
                        \/ MatchesTriBlend(b.fit_notes)
                        \/ b.tier = <<"a", "l", "t", "_", "m", "i", "d", "_", "t", "r", "i", "b", "l", "e", "n", "d">>)

\* (every chip enabled)
AvailableAlways(f) == TRUE

Available(f) ==
  IF f = "organic" THEN canOrganic
  ELSE IF f = "usa_made" THEN canUSAMade
  ELSE canTriblend

\* toggleFeature(code, enabled)
toggleFeature(prev, code, enabled) == IF enabled THEN prev \cup {code} ELSE prev \ {code}

\* a feature chip: onClick={() => can && toggleFeature(code, !features.has(code))}
ClickFeature(f) ==
  /\ Rendered
  /\ features' = (IF Available(f) THEN toggleFeature(features, f, f \notin features)
                  ELSE features)
  /\ UNCHANGED <<src, rows, callVars, copyVars, cardVars, loadVars, bases, products, descriptions, loading,
                 error, category, selectedBase, filterText, effectPending>>

\* what the user types into the inventory filter
FilterTexts == {<<>>, <<"r", "e", "d">>}

\* (a filter that narrows the loaded products themselves)
EditFilterInPlace(q) ==
  /\ Rendered
  /\ filterText' = q
  /\ products' = SelectSeq(products, LAMBDA p :
                    q = <<>> \/ Contains(toLowerCase(OrEmpty(p.color)), q))
  /\ UNCHANGED <<src, rows, callVars, copyVars, cardVars, loadVars, bases, descriptions,
                 loading, error, category, selectedBase, features, effectPending>>

EditFilter(q) ==
  /\ Rendered
  /\ filterText' = q
  /\ UNCHANGED <<src, rows, callVars, copyVars, cardVars, loadVars, bases, products, descriptions, loading,
                 error, category, selectedBase, features, effectPending>>

\* the Clear button, shown while the filter is not empty
ClearFilter ==
  /\ Rendered
  /\ filterText # <<>>
  /\ filterText' = <<>>
  /\ UNCHANGED <<src, rows, callVars, copyVars, cardVars, loadVars, bases, products, descriptions, loading,
                 error, category, selectedBase, features, effectPending>>

----------------------------------------------------------------------------
(* The text normalizer *)

\* s without the characters at the positions in drop
Without(s, drop) ==
  ConcatAll([i \in 1..Len(s) |-> IF i \in drop THEN <<>> ELSE <<s[i]>>])

\* (a first step that leaves the text as it is)
KeepCRLF(s) == s

\* .replace(/\r\n/g, "\n")
ReplaceCRLF(s) == Without(s, {i \in 1..(Len(s) - 1) : s[i] = CR /\ s[i + 1] = LF})

\* .replace(/\n{3,}/g, "\n\n")
CollapseNewlines(s) ==
  Without(s, {i \in 3..Len(s) : s[i] = LF /\ s[i - 1] = LF /\ s[i - 2] = LF})

\* .replace(/[ \t]+\n/g, "\n")
StripBeforeNewline(s) ==
  Without(s, {i \in 1..Len(s) :
                /\ s[i] \in {SP, TAB}
                /\ \E j \in (i + 1)..Len(s) :
                     s[j] = LF /\ \A k \in i..(j - 1) : s[k] \in {SP, TAB}})

tidy(text) == trim(StripBeforeNewline(CollapseNewlines(ReplaceCRLF(text))))

----------------------------------------------------------------------------
(* The copy block *)

TIER_LABEL == <<
  <<<<"s", "t", "d">>, <<"S", "t", "d">>>>,
  <<<<"m", "i", "d">>, <<"M", "i", "d">>>>,
  <<<<"p", "r", "e", "m", "i", "u", "m", "_", "n", "o", "n", "_", "o", "r", "g">>, <<"P", "r", "e", "m", "i", "u", "m">>>>,
  <<<<"p", "r", "e", "m", "i", "u", "m", "_", "o", "r", "g">>, <<"P", "r", "e", "m", "i", "u", "m", " ", "+">>>>,
  <<<<"h", "e", "a", "v", "y", "_", "t", "o", "p">>, <<"M", "i", "d">>>>,
  <<<<"a", "l", "t", "_", "m", "i", "d", "_", "t", "r", "i", "b", "l", "e", "n", "d">>, <<"M", "i", "d">>>> >>

\* TIER_LABEL[tier] ?? tier
TierLabel(tier) ==
  IF \E k \in 1..Len(TIER_LABEL) : TIER_LABEL[k][1] = tier
  THEN TIER_LABEL[CHOOSE k \in 1..Len(TIER_LABEL) : TIER_LABEL[k][1] = tier][2]
  ELSE tier

\* the text of a feature code
FeatureText(f) ==
  IF f = "organic" THEN <<"o", "r", "g", "a", "n", "i", "c">>
  ELSE IF f = "usa_made" THEN <<"u", "s", "a", "_", "m", "a", "d", "e">>
  ELSE <<"t", "r", "i", "b", "l", "e", "n", "d">>

\* Set.prototype.add on a Set kept in insertion order
AddTag(tags, t) == IF \E i \in 1..Len(tags) : tags[i] = t THEN tags ELSE Append(tags, t)

\* (tags that start with the tier's display label)
TagsLabelFirst(b, fs) ==
  LET t1 == <<TierLabel(b.tier)>>
      t2 == IF b.organic \/ "organic" \in fs THEN AddTag(t1, FeatureText("organic")) ELSE t1
      t3 == IF b.usa_made \/ "usa_made" \in fs THEN AddTag(t2, FeatureText("usa_made")) ELSE t2
  IN IF "triblend" \in fs THEN AddTag(t3, FeatureText("triblend")) ELSE t3

\* (tags from the toggles alone)
TagsTogglesOnly(b, fs) ==
  LET t1 == <<b.tier>>
      t2 == IF "organic" \in fs THEN AddTag(t1, FeatureText("organic")) ELSE t1
      t3 == IF "usa_made" \in fs THEN AddTag(t2, FeatureText("usa_made")) ELSE t2
  IN IF "triblend" \in fs THEN AddTag(t3, FeatureText("triblend")) ELSE t3

\* the tags of buildCopyBlock, in insertion order
Tags(b, fs) ==
  LET t1 == <<b.tier>>
      t2 == IF b.organic \/ "organic" \in fs THEN AddTag(t1, FeatureText("organic")) ELSE t1
      t3 == IF b.usa_made \/ "usa_made" \in fs THEN AddTag(t2, FeatureText("usa_made")) ELSE t2
  IN IF "triblend" \in fs THEN AddTag(t3, FeatureText("triblend")) ELSE t3

RECURSIVE IntText(_)
IntText(n) == IF n < 10 THEN <<DIGITS[n + 1]>>
              ELSE IntText(n \div 10) \o <<DIGITS[(n % 10) + 1]>>

\* amounts in thousandths that end in 5 and whose binary double lies below
\* the decimal (1.005 is 1.00499999999999989...); the other such amounts the
\* model renders, 19.995 among them, lie above it or are exact eighths, where
\* toFixed takes the larger neighbour
BinaryBelow == {1005}

\* Number.prototype.toFixed(2) of a finite number
toFixed2(n) ==
  LET a == IF n.milli < 0 THEN 0 - n.milli ELSE n.milli
      down == a \div 10
      cents == IF (a % 10) < 5 \/ ((a % 10) = 5 /\ a \in BinaryBelow) THEN down ELSE down + 1
      sign == IF n.milli < 0 THEN <<"-">> ELSE <<>>
  IN sign \o IntText(cents \div 100) \o <<".">>
          \o <<DIGITS[((cents \div 10) % 10) + 1], DIGITS[(cents % 10) + 1]>>

\* a || b on texts
OrText(a, b) == IF a \in {<<>>, undefined, null} THEN b ELSE a

AS4062_DESCRIPTION ==
  <<"A", " ", "m", "o", "d", "e", "r", "n", " ", "c", "r", "o", "p", "p", "e", "d", " ", "t", "e", "e", " ", "w", "i", "t", "h", " ", "a", " ", "r", "e", "l", "a", "x", "e", "d", " ", "s", "i", "l", "h", "o", "u", "e", "t", "t", "e", " ", "t", "h", "a", "t", " ", "p", "a", "i", "r", "s", " ", "e", "a", "s", "i", "l", "y", " ", "w", "i", "t", "h", " ", "h", "i", "g", "h", "-", "w", "a", "i", "s", "t", "e", "d", " ", "b", "o", "t", "t", "o", "m", "s", ".", "\n">>
  \o <<"-", " ", "M", "i", "d", "w", "e", "i", "g", "h", "t", " ", "c", "o", "m", "b", "e", "d", " ", "c", "o", "t", "t", "o", "n", " ", "(", "h", "e", "a", "t", "h", "e", "r", "s", " ", "m", "a", "y", " ", "v", "a", "r", "y", ")", "\n">>
  \o <<"-", " ", "R", "e", "l", "a", "x", "e", "d", " ", "f", "i", "t", ",", " ", "c", "r", "o", "p", "p", "e", "d", " ", "l", "e", "n", "g", "t", "h", "\n">>
  \o <<"-", " ", "R", "i", "b", "b", "e", "d", " ", "c", "r", "e", "w", " ", "n", "e", "c", "k", ",", " ", "s", "i", "d", "e", "-", "s", "e", "a", "m", "e", "d", "\n">>
  \o <<"-", " ", "P", "r", "e", "s", "h", "r", "u", "n", "k", " ", "t", "o", " ", "m", "i", "n", "i", "m", "i", "z", "e", " ", "s", "h", "r", "i", "n", "k", "a", "g", "e">>

buildDescription(b) ==
  IF b.code = <<"A", "S", "4", "0", "6", "2">> THEN AS4062_DESCRIPTION
  ELSE <<"-", " ">> \o OrText(b.fit_notes, <<"C", "o", "m", "f", "o", "r", "t", "a", "b", "l", "e", " ", "e", "v", "e", "r", "y", "d", "a", "y", " ", "f", "i", "t">>) \o <<LF>>
       \o <<"-", " ", "B", "r", "a", "n", "d", ":", " ">> \o b.brand \o <<SP>> \o b.model_name

\* the two renderers of the sources: the App's current one, with the Tier
\* line and the body handed in, and the earlier one
Renderers == {"current", "earlier"}

HeaderStart(b) ==
  <<"B", "a", "s", "e", " ", "P", "r", "o", "d", "u", "c", "t", " ", "N", "a", "m", "e", ":", " ">> \o b.label \o <<LF>>
  \o <<"B", "a", "s", "e", " ", "P", "r", "o", "d", "u", "c", "t", " ", "C", "o", "d", "e", ":", " ">> \o b.code \o <<LF>>
  \o <<"R", "e", "t", "a", "i", "l", " ", "P", "r", "i", "c", "e", ":", " ", "$">> \o toFixed2(b.retail_price) \o <<LF>>

TagsLine(b, fs) == <<"T", "a", "g", "s", " ", "u", "s", "e", "d", ":", " ">> \o JoinWith(Tags(b, fs), <<COMMA, SP>>)

buildCopyBlock(b, fs, body) ==
  HeaderStart(b) \o <<"T", "i", "e", "r", ":", " ">> \o TierLabel(b.tier) \o <<LF>> \o TagsLine(b, fs)
  \o <<LF, LF>> \o body

buildCopyBlockEarlier(b, fs) ==
  HeaderStart(b) \o TagsLine(b, fs) \o <<LF, LF>> \o buildDescription(b)

----------------------------------------------------------------------------
(* App: the selected base, its inventory, its description and the copy     *)
(* buttons                                                                 *)

\* a base has the selected code: `base` is not null
BaseFound == \E i \in 1..Len(bases) : bases[i].code = selectedBase

\* bases.find((r) => r.code === selectedBase) || null
base ==
  LET hits == SelectSeq(bases, LAMBDA r : r.code = selectedBase) IN
  IF hits = <<>> THEN null ELSE hits[1]

\* (an inventory list that is not narrowed to the selected base)
productsOfAnyBase == SelectSeq(products, LAMBDA p : p.enabled)

\* products.filter((p) => p.base_code === selectedBase && p.enabled)
productsForBase ==
  SelectSeq(products, LAMBDA p : p.base_code = selectedBase /\ p.enabled)

\* Boolean(v) of a text or a missing value
Truthy(v) == v \notin {<<>>, undefined, null}

\* the text filter applied to the base's products
visibleProducts ==
  LET q == toLowerCase(trim(filterText)) IN
  IF q = <<>> THEN productsForBase
  ELSE SelectSeq(productsForBase, LAMBDA p :
         \E v \in {p.sku, p.title, p.color, p.size} :
            Truthy(v) /\ Contains(toLowerCase(v), q))

\* base ? (descriptions[base.code] || "") : ""
rawDesc ==
  IF ~BaseFound THEN <<>> ELSE OrText(MapGet(descriptions, base.code), <<>>)

descText == tidy(rawDesc)

\* (a body that takes the stored text as it is and has no fallback)
copyBodyRaw == rawDesc

\* descText || buildDescription(base)
copyBody == OrText(descText, buildDescription(base))

NoBaseText == <<"S", "e", "l", "e", "c", "t", " ", "a", " ", "b", "a", "s", "e", " ", "a", "b", "o", "v", "e", " ", "t", "o", " ", "p", "r", "e", "v", "i", "e", "w", ".">>

\* the copy block on screen
copyBlock ==
  IF ~BaseFound THEN NoBaseText ELSE buildCopyBlock(base, features, copyBody)

\* legacyCopy(text): document.execCommand("copy") puts the text on the
\* clipboard, or does not (it returns false or throws; nothing is caught or
\* looked at)
legacyCopy(text, copied) == clipboard' = (IF copied THEN text ELSE clipboard)

\* copyToClipboard(text)
copyToClipboard(text, copied) ==
  IF text = <<>> THEN UNCHANGED <<clipboard, writes>>
  ELSE IF navigatorClipboard
  THEN writes' = Append(writes, text) /\ UNCHANGED clipboard
  ELSE legacyCopy(text, copied) /\ UNCHANGED writes

\* writeText() calls the model lets be under way at once
MaxWrites == 1

\* the Copy description button (disabled without a base)
CopyDescription ==
  /\ Rendered
  /\ BaseFound
  /\ Len(writes) < MaxWrites
  /\ \E copied \in BOOLEAN : copyToClipboard(copyBody, copied)
  /\ UNCHANGED <<src, rows, callVars, navigatorClipboard, cardVars, loadVars, appVars>>

\* the Copy all button (disabled without a base)
CopyAll ==
  /\ Rendered
  /\ BaseFound
  /\ Len(writes) < MaxWrites
  /\ \E copied \in BOOLEAN :
        copyToClipboard(buildCopyBlock(base, features, copyBody), copied)
  /\ UNCHANGED <<src, rows, callVars, navigatorClipboard, cardVars, loadVars, appVars>>

\* s without its i-th element
RemoveAt(s, i) == SubSeq(s, 1, i - 1) \o SubSeq(s, i + 1, Len(s))

\* a writeText() promise settles: fulfilled with the text on the clipboard,
\* or rejected, and the .catch handler runs legacyCopy
WriteSettle(i) ==
  /\ i \in 1..Len(writes)
  /\ \E written \in BOOLEAN, copied \in BOOLEAN :
        IF written THEN clipboard' = writes[i] ELSE legacyCopy(writes[i], copied)
  /\ writes' = RemoveAt(writes, i)
  /\ UNCHANGED <<src, rows, callVars, navigatorClipboard, cardVars, loadVars, appVars>>

----------------------------------------------------------------------------
(* The copy-only App: one ProductCard per product of products.json, its    *)
(* copy buttons, its status line, the "Last copied preview"                *)

\* products.json as served
CardDocs == <<
  [kind |-> "array",
   data |-> <<[sku |-> <<"S", "1">>, title |-> <<"T", "e", "e">>, price |-> <<"$", "2", "0", ".", "0", "0">>,
               description |-> <<"S", "o", "f", "t", "\n", "-", " ", "a">>],
              [sku |-> <<"S", "2">>, title |-> <<>>, price |-> <<"$", "5">>,
               description |-> <<"x", "\r", "\n", "y">>]>>],
  [kind |-> "array",
   data |-> <<[sku |-> <<"S", "3">>, title |-> <<"C", "a", "p">>, price |-> <<>>,
               description |-> <<>>]>>],
  [kind |-> "invalid", data |-> <<>>]
>>

\* `Could not load products.json (${e?.message ?? "unknown error"})`
CouldNotLoad == [network_error |-> <<"Could not load products.json (Failed to fetch)">>,
                 http_error |-> <<"Could not load products.json (HTTP 404)">>,
                 invalid |-> <<"Could not load products.json (Unexpected token)">>]

\* fetch("/products.json") settles
CardsFetchSettle ==
  /\ net = [json |-> "pending"]
  /\ IF server.outcome = "ok"
     THEN net' = [json |-> "reading"] /\ UNCHANGED <<products, error>>
     ELSE /\ net' = [json |-> "failed"]
          /\ error' = CouldNotLoad[server.outcome]
          /\ products' = <<>>
  /\ UNCHANGED <<src, rows, callVars, copyVars, cardVars, server, bpPromise, prPromise,
                 descPromise, bases, descriptions, loading, category, selectedBase,
                 features, filterText, effectPending>>

\* res.json() settles; the cards of the products mount with an empty status
CardsBodyRead ==
  /\ net = [json |-> "reading"]
  /\ net' = [json |-> "read"]
  /\ LET doc == CardDocs[server.doc] IN
     IF doc.kind = "array"
     THEN /\ products' = doc.data
          /\ error' = null
          /\ status' = [i \in 1..Len(doc.data) |-> <<>>]
          /\ timers' = [i \in 1..Len(doc.data) |-> 0]
     ELSE /\ error' = CouldNotLoad["invalid"]
          /\ products' = <<>>
          /\ UNCHANGED <<status, timers>>
  /\ UNCHANGED <<src, rows, callVars, copyVars, lastCopied, server, bpPromise, prPromise,
                 descPromise, bases, descriptions, loading, category, selectedBase,
                 features, filterText, effectPending>>

\* text.replace(/\r?\n/g, "\r\n")
Payload(text) ==
  ConcatAll([i \in 1..Len(text) |->
     IF text[i] = LF /\ (i = 1 \/ text[i - 1] # CR) THEN <<CR, LF>> ELSE <<text[i]>>])

Labels == {<<"T", "i", "t", "l", "e">>, <<"D", "e", "s", "c", "r", "i", "p", "t", "i", "o", "n">>, <<"S", "K", "U">>, <<"A", "l", "l", " ", "f", "i", "e", "l", "d", "s">>}

\* [p.title, `Price: ${p.price}`, `SKU: ${p.sku}`, "", p.description].join("\n")
copyAllText(prod) ==
  JoinWith(<<prod.title, <<"P", "r", "i", "c", "e", ":", " ">> \o prod.price, <<"S", "K", "U", ":", " ">> \o prod.sku, <<>>,
             prod.description>>, <<LF>>)

\* the text each button of a card copies
CardText(prod, label) ==
  IF label = <<"T", "i", "t", "l", "e">> THEN prod.title
  ELSE IF label = <<"D", "e", "s", "c", "r", "i", "p", "t", "i", "o", "n">> THEN prod.description
  ELSE IF label = <<"S", "K", "U">> THEN prod.sku
  ELSE copyAllText(prod)

\* `Clipboard blocked — allow and try again`
BLOCKED == <<"Clipboard blocked">>

\* copy() after `await robustCopy(text)`: onCopied(text, label), which sets
\* lastCopied to `(${label})\n${text}`, then notify(label, ok), which sets
\* the status (`${label} copied` and a check mark, or the blocked notice)
\* and a timeout that clears it
afterCopy(i, label, text, ok) ==
  /\ lastCopied' = <<"(">> \o label \o <<")", LF>> \o text
  /\ status' = [status EXCEPT ![i] = IF ok THEN label \o <<" ", "c", "o", "p", "i", "e", "d">> ELSE BLOCKED]
  /\ timers' = [timers EXCEPT ![i] = @ + 1]

\* timeouts the model lets be pending per card, writes under way included
MaxTimers == 2

\* a copy button of card i: copy(label, text) up to the first await that
\* waits; without navigator.clipboard the call throws at once and the
\* fallback (document.execCommand("copy"), which returns whether it
\* copied, or throws) runs in the same turn
CardCopy(i, label) ==
  /\ i \in 1..Len(products)
  /\ Len(writes) < MaxWrites
  /\ timers[i] + Cardinality({k \in 1..Len(writes) : writes[k].card = i}) < MaxTimers
  /\ LET text == CardText(products[i], label) IN
     IF navigatorClipboard
     THEN /\ writes' = Append(writes, [card |-> i, label |-> label, text |-> text,
                                       payload |-> Payload(text)])
          /\ UNCHANGED <<clipboard, cardVars>>
     ELSE \E ok \in BOOLEAN :
            /\ clipboard' = (IF ok THEN Payload(text) ELSE clipboard)
            /\ afterCopy(i, label, text, ok)
            /\ UNCHANGED writes
  /\ UNCHANGED <<src, rows, callVars, navigatorClipboard, loadVars, appVars>>

\* navigator.clipboard.writeText(payload) settles: robustCopy returns true,
\* or runs the fallback and returns what it gives; copy() goes on
RobustCopySettle(k) ==
  /\ k \in 1..Len(writes)
  /\ LET w == writes[k] IN
     \E written \in BOOLEAN, fallback \in BOOLEAN :
        LET ok == written \/ fallback IN
        /\ clipboard' = (IF ok THEN w.payload ELSE clipboard)
        /\ afterCopy(w.card, w.label, w.text, ok)
  /\ writes' = RemoveAt(writes, k)
  /\ UNCHANGED <<src, rows, callVars, navigatorClipboard, loadVars, appVars>>

\* a timeout of notify fires: setStatus("")
StatusTimeout(i) ==
  /\ i \in DOMAIN timers
  /\ timers[i] > 0
  /\ timers' = [timers EXCEPT ![i] = @ - 1]
  /\ status' = [status EXCEPT ![i] = <<>>]
  /\ UNCHANGED <<src, rows, callVars, copyVars, lastCopied, loadVars, appVars>>

----------------------------------------------------------------------------
(* Sessions *)

AllOk == [s \in Sources |-> "ok"]

\* the call of a session that is not a function harness
NoCall == [fn |-> "none"]

\* the server of a harness that makes no request
IdleServer == [version |-> 2, hv |-> 1, table |-> <<>>, tierTable |-> 2,
               brandTable |-> 2, prTable |-> <<>>, descDoc |-> 2, outcome |-> AllOk]

\* Loader sessions: every base-product table of up to MaxRows pool rows under
\* either header, both loader versions, every read succeeding
MaxRows == 2

Tables(n) == UNION {[1..k -> 1..Len(BasePool)] : k \in 0..n}

InitLoad ==
  /\ src = <<>>
  /\ rows = NotRun
  /\ call = NoCall
  /\ returned = NotRun
  /\ \E version \in {1, 2}, hv \in {1, 2}, table \in Tables(MaxRows) :
       server = [version |-> version, hv |-> hv, table |-> table, tierTable |-> 1,
                 brandTable |-> 1, prTable |-> <<>>, descDoc |-> 2, outcome |-> AllOk]
  /\ net = [s \in Sources |-> "pending"]
  /\ AppMounted
  /\ Browser(TRUE)
  /\ NoCards

NextLoad == \E s \in JoinSources : FetchSettle(s) \/ BodyRead(s)

SpecLoad == InitLoad /\ [][NextLoad]_vars

\* App sessions: a handful of base-product and product tables, every tier
\* and description file, every way each request can end
AppTables == {<<>>, <<5>>, <<1, 2>>, <<1, 6>>, <<4, 7>>, <<13, 4>>, <<4, 13>>,
              <<3, 10, 4, 1>>, <<8, 11, 4, 6>>}

AppProductTables == {<<1, 2, 5, 3, 4>>, <<5>>}

Init ==
  /\ src = <<>>
  /\ rows = NotRun
  /\ call = NoCall
  /\ returned = NotRun
  /\ \E version \in {1, 2}, outcome \in [Sources -> Outcomes] :
     \E table \in (IF outcome["bp"] = "ok" THEN AppTables ELSE {<<>>}),
        tierTable \in (IF version = 2 /\ outcome["tier"] = "ok" THEN {1, 2} ELSE {2}),
        brandTable \in (IF version = 2 /\ outcome["brand"] = "ok" THEN {1, 2} ELSE {2}),
        prTable \in (IF outcome["pr"] = "ok" THEN AppProductTables ELSE {<<>>}),
        descDoc \in (IF outcome["desc"] = "ok" THEN {1, 2, 3} ELSE {2}) :
       /\ version = 1 => outcome["tier"] = "ok" /\ outcome["brand"] = "ok"
       /\ server = [version |-> version, hv |-> 1, table |-> table,
                    tierTable |-> tierTable, brandTable |-> brandTable,
                    prTable |-> prTable, descDoc |-> descDoc, outcome |-> outcome]
  /\ net = [s \in Sources |-> "pending"]
  /\ AppMounted
  /\ Browser(TRUE)
  /\ NoCards

Next ==
  \/ \E s \in Sources : FetchSettle(s)
  \/ \E s \in Sources : BodyRead(s)
  \/ CategoryEffect
  \/ \E c \in categories : ClickCategory(c)
  \/ \E i \in 1..Len(bases) : ClickBase(i)
  \/ \E f \in FeatureCodes : ClickFeature(f)
  \/ \E q \in FilterTexts : EditFilter(q)
  \/ ClearFilter

Spec == Init /\ [][Next]_vars

\* Sessions under the scheduling the code relies on: a request that is
\* under way settles, a body that is being read is read, and an effect that
\* React has scheduled runs
\* (weak fairness of the steps of the network, \E s : FetchSettle(s) \/
\* BodyRead(s), is written out: those steps are enabled exactly when a
\* request is under way, and they are the steps that change net)
NetBusy == \E s \in Requested(server.version) : net[s] \in {"pending", "reading"}

Fairness ==
  /\ []<>(~NetBusy) \/ []<><<net' # net>>_vars
  /\ WF_vars(CategoryEffect)

\* the sessions checked under fairness: three base-product tables, one
\* product table, one description file, every way each request can end
FairTables == {<<>>, <<4, 13>>, <<4, 7>>}

InitFair ==
  /\ src = <<>>
  /\ rows = NotRun
  /\ call = NoCall
  /\ returned = NotRun
  /\ \E version \in {1, 2}, outcome \in [Sources -> Outcomes] :
     \E table \in (IF outcome["bp"] = "ok" THEN FairTables ELSE {<<>>}) :
       /\ version = 1 => outcome["tier"] = "ok" /\ outcome["brand"] = "ok"
       /\ server = [version |-> version, hv |-> 1, table |-> table,
                    tierTable |-> 1, brandTable |-> 1,
                    prTable |-> (IF outcome["pr"] = "ok" THEN <<1, 2>> ELSE <<>>),
                    descDoc |-> 1, outcome |-> outcome]
  /\ net = [s \in Sources |-> "pending"]
  /\ AppMounted
  /\ Browser(TRUE)
  /\ NoCards

SpecFair == InitFair /\ [][Next]_vars /\ Fairness

\* App sessions with the copy buttons and the clipboard: two base-product
\* tables, both loaders, with and without navigator.clipboard, every read
\* succeeding
CopyTables == {<<3, 10, 4, 1>>, <<1, 6>>}

InitCopy ==
  /\ src = <<>>
  /\ rows = NotRun
  /\ call = NoCall
  /\ returned = NotRun
  /\ \E version \in {1, 2}, table \in CopyTables :
       server = [version |-> version, hv |-> 1, table |-> table,
                 tierTable |-> 1, brandTable |-> 1,
                 prTable |-> <<1, 2, 5, 3, 4>>, descDoc |-> 1,
                 outcome |-> AllOk]
  /\ net = [s \in Sources |-> "pending"]
  /\ AppMounted
  /\ \E api \in BOOLEAN : Browser(api)
  /\ NoCards

NextCopy ==
  \/ Next
  \/ CopyDescription
  \/ CopyAll
  \/ \E i \in 1..Len(writes) : WriteSettle(i)

SpecCopy == InitCopy /\ [][NextCopy]_vars

\* Sessions of the copy-only App: every products.json, every way its
\* request ends, with and without navigator.clipboard
InitCards ==
  /\ src = <<>>
  /\ rows = NotRun
  /\ call = NoCall
  /\ returned = NotRun
  /\ \E doc \in 1..Len(CardDocs), outcome \in Outcomes :
       /\ outcome # "ok" => doc = Len(CardDocs)
       /\ server = [doc |-> doc, outcome |-> outcome]
  /\ net = [json |-> "pending"]
  /\ AppMounted
  /\ \E api \in BOOLEAN : Browser(api)
  /\ NoCards

NextCards ==
  \/ CardsFetchSettle
  \/ CardsBodyRead
  \/ \E i \in 1..Len(products), label \in Labels : CardCopy(i, label)
  \/ \E k \in 1..Len(writes) : RobustCopySettle(k)
  \/ \E i \in DOMAIN timers : StatusTimeout(i)

SpecCards == InitCards /\ [][NextCards]_vars

----------------------------------------------------------------------------
(* Parser harness: every text over ParseAlphabet up to MaxLen characters *)

MaxLen == 5

ParseAlphabet == {"a", COMMA, LF, CR, QUOTE, SP}

Texts(A, n) == UNION {[1..k -> A] : k \in 0..n}

InitParse ==
  /\ src \in Texts(ParseAlphabet, MaxLen)
  /\ rows = NotRun
  /\ call = NoCall
  /\ returned = NotRun
  /\ server = IdleServer
  /\ net = [s \in Sources |-> "pending"]
  /\ AppMounted
  /\ Browser(TRUE)
  /\ NoCards

RunParse ==
  /\ rows = NotRun
  /\ rows' = parseCSV(src)
  /\ UNCHANGED <<src, callVars, copyVars, cardVars, loadVars, appVars>>

NextParse == RunParse

SpecParse == InitParse /\ [][NextParse]_vars

----------------------------------------------------------------------------
(* Normalizer harness: tidy on every text over TidyAlphabet up to MaxText
   characters *)

MaxText == 6

TidyAlphabet == {"a", SP, TAB, LF, CR}

InitTidy ==
  /\ src = <<>>
  /\ rows = NotRun
  /\ \E x \in Texts(TidyAlphabet, MaxText) : call = [fn |-> "tidy", text |-> x]
  /\ returned = NotRun
  /\ server = IdleServer
  /\ net = [s \in Sources |-> "pending"]
  /\ AppMounted
  /\ Browser(TRUE)
  /\ NoCards

RunTidy ==
  /\ call.fn = "tidy"
  /\ returned = NotRun
  /\ returned' = tidy(call.text)
  /\ UNCHANGED <<src, rows, call, copyVars, cardVars, loadVars, appVars>>

NextTidy == RunTidy

SpecTidy == InitTidy /\ [][NextTidy]_vars

----------------------------------------------------------------------------
(* Renderer harness: buildCopyBlock, in both renderers, on the records the
   loaders make of the pool rows and on a few records of the spec's
   examples, with every set of toggles *)

\* the records of the joining loader and of the earlier loader for the pool
\* rows that carry every column
LoadedBases ==
  LET t == <<1, 2, 3, 4, 5, 6, 7, 8, 9>>
      joined == loadBaseProducts(BaseText(t, 1), TierText(1), BrandText(1))
      raw == loadBaseProductsV1(BaseText(t, 1))
  IN {joined[i] : i \in 1..Len(joined)} \cup {raw[i] : i \in 1..Len(raw)}

ExampleBase(code, label, tier, organic, usa_made, milli) ==
  [code |-> code, brand |-> <<"A", "c", "m", "e">>, model_name |-> <<"M">>, label |-> label,
   category |-> <<"c", "r", "o", "p">>, tier |-> tier, organic |-> organic, usa_made |-> usa_made,
   active |-> TRUE, retail_price |-> Num(milli), fit_notes |-> <<>>]

ExampleBases == {
  ExampleBase(<<"X", "1">>, <<"C", "l", "a", "s", "s", "i", "c", " ", "T", "e", "e">>, <<"s", "t", "d">>, FALSE, FALSE, 19995),
  ExampleBase(<<"X", "2">>, <<"T", "e", "e">>, <<"p", "r", "e", "m", "i", "u", "m", "_", "o", "r", "g">>, TRUE, TRUE, 1005),
  ExampleBase(<<"A", "S", "4", "0", "6", "2">>, <<"C", "r", "o", "p">>, <<"o", "r", "g", "a", "n", "i", "c">>, TRUE, FALSE, 1125),
  ExampleBase(<<"X", "3">>, <<"T", "e", "e">>, <<"h", "e", "a", "v", "y", "_", "t", "o", "p">>, FALSE, TRUE, 994) }

RenderBases == LoadedBases \cup ExampleBases

RenderBodies == {<<"s", "o", "f", "t", " ", "t", "e", "e">>, <<"a", "\n", "\n", "b">>}

InitRender ==
  /\ src = <<>>
  /\ rows = NotRun
  /\ \E v \in Renderers, b \in RenderBases, fs \in SUBSET FeatureCodes, body \in RenderBodies :
       call = [fn |-> "buildCopyBlock", renderer |-> v, b |-> b, features |-> fs,
               body |-> body]
  /\ returned = NotRun
  /\ server = IdleServer
  /\ net = [s \in Sources |-> "pending"]
  /\ AppMounted
  /\ Browser(TRUE)
  /\ NoCards

RunRender ==
  /\ call.fn = "buildCopyBlock"
  /\ returned = NotRun
  /\ returned' = (IF call.renderer = "current"
                  THEN buildCopyBlock(call.b, call.features, call.body)
                  ELSE buildCopyBlockEarlier(call.b, call.features))
  /\ UNCHANGED <<src, rows, call, copyVars, cardVars, loadVars, appVars>>

NextRender == RunRender

SpecRender == InitRender /\ [][NextRender]_vars

----------------------------------------------------------------------------
(* Counting helpers for statements about the parser *)

CountChar(t, c) == Cardinality({i \in DOMAIN t : t[i] = c})

\* all fields of all rows, in order
AllFields(rws) == ConcatAll(rws)

\* all characters of all fields
OutChars(rws) == ConcatAll(AllFields(rws))

QuotesBefore(s, i) == Cardinality({j \in 1..(i - 1) : s[j] = QUOTE})

\* position i lies inside a quoted field: an odd number of quotes precede it
InsideQuotes(s, i) == QuotesBefore(s, i) % 2 = 1

QuotedCount(s, c) == Cardinality({i \in 1..Len(s) : s[i] = c /\ InsideQuotes(s, i)})

UnquotedCount(s, c) == Cardinality({i \in 1..Len(s) : s[i] = c /\ ~InsideQuotes(s, i)})

RECURSIVE RunLen(_, _)
RunLen(s, p) == IF p > Len(s) \/ s[p] # QUOTE THEN 0 ELSE 1 + RunLen(s, p + 1)

\* the number of doubled quotes inside quoted fields: a run of k quotes that
\* starts outside a quoted field spends one quote on opening it
RECURSIVE EscapedPairsFrom(_, _)
EscapedPairsFrom(s, p) ==
  IF p > Len(s) THEN 0
  ELSE IF s[p] # QUOTE THEN EscapedPairsFrom(s, p + 1)
  ELSE LET k == RunLen(s, p)
           opening == IF InsideQuotes(s, p) THEN 0 ELSE 1
       IN ((k - opening) \div 2) + EscapedPairsFrom(s, p + k)

EscapedPairs(s) == EscapedPairsFrom(s, 1)

----------------------------------------------------------------------------
(* What a session serves, row by row, for statements about the loaders *)

ColOf(name) == CHOOSE c \in 1..Len(BaseHeader) : BaseHeader[c] = name

\* column c of pool row k is served under header hv
IsServed(k, hv, c) ==
  /\ c <= Len(BasePool[k])
  /\ \E j \in 1..Len(HeaderColumns[hv]) : HeaderColumns[hv][j] = c

\* the served text of a named column of pool row k, undefined if not served
FieldText(k, hv, name) ==
  IF IsServed(k, hv, ColOf(name)) THEN BasePool[k][ColOf(name)] ELSE undefined

\* the trimmed text, empty when the column is not served
Trimmed(k, hv, name) == trim(OrEmpty(FieldText(k, hv, name)))

IsBlankRow(k, hv) ==
  \A c \in 1..Len(BasePool[k]) : IsServed(k, hv, c) => trim(BasePool[k][c]) = <<>>

\* the pool rows of the served table that are not blank, in order
NonBlankRows == SelectSeq(server.table, LAMBDA k : ~IsBlankRow(k, server.hv))

\* the tier a (key, tier) table gives a key: that of the last row with the
\* key, trimmed; empty when no row has it
TableEntry(tbl, key) ==
  LET hits == {i \in 1..Len(tbl) : trim(tbl[i][1]) = key} IN
  IF hits = {} \/ key = <<>> THEN <<>>
  ELSE trim(tbl[CHOOSE i \in hits : \A j \in hits : i >= j][2])

OverrideFor(k) == TableEntry(TierTables[server.tierTable], Trimmed(k, server.hv, N_code))

BrandDefaultFor(k) == TableEntry(BrandTables[server.brandTable], Trimmed(k, server.hv, N_brand))

BaseLoaded == bpPromise.state = "fulfilled"

JoinLoaded == BaseLoaded /\ server.version = 2

\* the loader returned one record per non-blank served row
OneRecordPerRow == Len(bpPromise.value) = Len(NonBlankRows)

----------------------------------------------------------------------------
(* C1: tier precedence in the joining loadBaseProducts.  Every record's tier
   is the row's own trimmed tier if that is not blank, otherwise the override
   table's entry for the row's code if not blank, otherwise the brand-default
   table's entry for the row's brand if not blank, otherwise empty. *)
C1_TierPrecedence ==
  JoinLoaded =>
    /\ OneRecordPerRow
    /\ \A i \in 1..Len(bpPromise.value) :
         LET k == NonBlankRows[i]
             own == Trimmed(k, server.hv, N_tier)
         IN bpPromise.value[i].tier =
              (IF own # <<>> THEN own
               ELSE IF OverrideFor(k) # <<>> THEN OverrideFor(k)
               ELSE IF BrandDefaultFor(k) # <<>> THEN BrandDefaultFor(k)
               ELSE <<>>)

\* a loaded table in which one row takes its tier from the override table
\* (both lower sources present) and another from the brand default
C1_Witness ==
  /\ JoinLoaded
  /\ OneRecordPerRow
  /\ \E i, j \in 1..Len(bpPromise.value) :
       /\ Trimmed(NonBlankRows[i], server.hv, N_tier) = <<>>
       /\ OverrideFor(NonBlankRows[i]) # <<>>
       /\ BrandDefaultFor(NonBlankRows[i]) # <<>>
       /\ bpPromise.value[i].tier = OverrideFor(NonBlankRows[i])
       /\ OverrideFor(NonBlankRows[j]) = <<>>
       /\ bpPromise.value[j].tier = <<"c", "o", "r", "e">>

----------------------------------------------------------------------------
(* C2: the base-product source answers with a failure status.
   loadBaseProducts never fulfils, it rejects with the error that names
   base_products.csv, and the App, once loading is over, shows an error and
   holds no base. *)
C2_BaseFailureFailsLoad ==
  server.outcome["bp"] = "http_error" =>
    /\ bpPromise.state # "fulfilled"
    /\ bpPromise.state = "rejected" => bpPromise.reason = FailedToLoad["bp"]
    /\ bases = <<>>
    /\ ~loading => error # null

----------------------------------------------------------------------------
(* C3: the tier-override and brand-default sources are optional.  With the
   base-product table served, the joining loadBaseProducts never rejects, and
   once the base-product text is read and each tier source is read or has
   failed, it is fulfilled with one record per non-blank row, tiers resolved
   with a failed table taken as empty. *)
TierSourceDone(s) == net[s] \in {"read", "failed"} \/ (net[s] = "responded" /\ ~Ok(s))

C3_TierSourcesOptional ==
  (server.version = 2 /\ Ok("bp")) =>
    /\ bpPromise.state # "rejected"
    /\ (net["bp"] \in {"responded", "reading", "read"}
        /\ TierSourceDone("tier") /\ TierSourceDone("brand")) =>
          /\ bpPromise.state = "fulfilled"
          /\ OneRecordPerRow
          /\ \A i \in 1..Len(bpPromise.value) :
               LET k == NonBlankRows[i]
                   own == Trimmed(k, server.hv, N_tier)
                   ov == IF Ok("tier") THEN OverrideFor(k) ELSE <<>>
                   bd == IF Ok("brand") THEN BrandDefaultFor(k) ELSE <<>>
               IN bpPromise.value[i].tier =
                    (IF own # <<>> THEN own ELSE IF ov # <<>> THEN ov ELSE bd)

----------------------------------------------------------------------------
(* C4: the initial load is all or nothing.  While loading, and whenever an
   error is set, bases, products, descriptions and category hold their
   initial values; a rejected required load means the error is set and
   loading is over; and with loading over and no error, the three loaders
   are fulfilled and bases, products and descriptions hold what they
   returned (active bases, enabled products). *)
C4_AllOrNothing ==
  /\ (loading \/ error # null) =>
        bases = <<>> /\ products = <<>> /\ descriptions = <<>> /\ category = null
  /\ (bpPromise.state = "rejected" \/ prPromise.state = "rejected") =>
        error # null /\ ~loading
  /\ error # null => ~loading
  /\ (~loading /\ error = null) =>
        /\ bpPromise.state = "fulfilled"
        /\ prPromise.state = "fulfilled"
        /\ descPromise.state = "fulfilled"
        /\ bases = SelectSeq(bpPromise.value, IsActive)
        /\ products = SelectSeq(prPromise.value, IsEnabled)
        /\ descriptions = (IF descPromise.value = null THEN <<>> ELSE descPromise.value)

\* the base products loaded, with active bases among them, and the product
\* load rejected: the App shows the error and holds nothing
C4_Witness ==
  /\ bpPromise.state = "fulfilled"
  /\ SelectSeq(bpPromise.value, IsActive) # <<>>
  /\ prPromise.state = "rejected"
  /\ error = FailedToLoad["pr"]
  /\ ~loading
  /\ bases = <<>>

----------------------------------------------------------------------------
(* C5: blank data rows.  loadBaseProducts and loadProducts return exactly
   one record per served data row that has a non-blank field, in order, and
   none for a row whose every field is blank after trimming. *)
NonBlankProductRows ==
  SelectSeq(server.prTable,
            LAMBDA k : \E c \in 1..Len(ProductPool[k]) : trim(ProductPool[k][c]) # <<>>)

C5_BlankRowsExcluded ==
  /\ BaseLoaded =>
       /\ OneRecordPerRow
       /\ \A i \in 1..Len(bpPromise.value) :
            LET k == NonBlankRows[i] r == bpPromise.value[i] IN
            /\ trim(OrEmpty(r.code)) = Trimmed(k, server.hv, N_code)
            /\ trim(OrEmpty(r.brand)) = Trimmed(k, server.hv, N_brand)
            /\ trim(OrEmpty(r.category)) = Trimmed(k, server.hv, N_category)
  /\ prPromise.state = "fulfilled" =>
       /\ Len(prPromise.value) = Len(NonBlankProductRows)
       /\ \A i \in 1..Len(prPromise.value) :
            prPromise.value[i].sku = ProductPool[NonBlankProductRows[i]][1]

\* both loaders done on tables that hold blank rows between non-blank ones
C5_Witness ==
  /\ BaseLoaded
  /\ Len(NonBlankRows) < Len(server.table)
  /\ Len(bpPromise.value) = 3
  /\ prPromise.state = "fulfilled"
  /\ Len(NonBlankProductRows) < Len(server.prTable)
  /\ Len(prPromise.value) = 4

----------------------------------------------------------------------------
(* C6: no record returned by loadBaseProducts has a blank code. *)
C6_NoBlankCode ==
  BaseLoaded =>
    \A i \in 1..Len(bpPromise.value) : trim(OrEmpty(bpPromise.value[i].code)) # <<>>

----------------------------------------------------------------------------
(* C7: no two records returned by loadBaseProducts share a code. *)
C7_UniqueCodes ==
  BaseLoaded =>
    \A i, j \in 1..Len(bpPromise.value) :
      i # j => bpPromise.value[i].code # bpPromise.value[j].code

----------------------------------------------------------------------------
(* C8 as stated: the tier of every record returned by loadBaseProducts is
   not empty. *)
C8_TierNeverEmpty ==
  BaseLoaded =>
    \A i \in 1..Len(bpPromise.value) : OrEmpty(bpPromise.value[i].tier) # <<>>

(* C8 amended: the joining loader leaves a record's tier empty exactly when
   the row's own tier is blank and neither the override table has a
   non-blank tier for its code nor the brand-default table one for its
   brand; the earlier loader resolves nothing and returns the row's tier
   text as served. *)
C8_TierEmptyOnlyUnresolved ==
  BaseLoaded =>
    /\ OneRecordPerRow
    /\ \A i \in 1..Len(bpPromise.value) :
         LET k == NonBlankRows[i] IN
         IF server.version = 2
         THEN (bpPromise.value[i].tier = <<>>) <=>
                (/\ Trimmed(k, server.hv, N_tier) = <<>>
                 /\ OverrideFor(k) = <<>>
                 /\ BrandDefaultFor(k) = <<>>)
         ELSE bpPromise.value[i].tier = FieldText(k, server.hv, N_tier)

\* a joined table with a record whose tier stays empty and a record that
\* only the brand default gives a tier
C8_Witness ==
  /\ JoinLoaded
  /\ OneRecordPerRow
  /\ \E i, j \in 1..Len(bpPromise.value) :
       /\ bpPromise.value[i].tier = <<>>
       /\ Trimmed(NonBlankRows[j], server.hv, N_tier) = <<>>
       /\ OverrideFor(NonBlankRows[j]) = <<>>
       /\ bpPromise.value[j].tier = BrandDefaultFor(NonBlankRows[j])
       /\ bpPromise.value[j].tier # <<>>

----------------------------------------------------------------------------
(* C9: field coercion.  No row is dropped; each boolean column is true
   exactly when its trimmed text is "true" in any letter case, false for
   anything else and for a column that is absent; retail_price is a finite
   number that is not negative. *)
IsTrueText(k, name) == toLowerCase(Trimmed(k, server.hv, name)) = TRUE_TEXT

C9_Coercion ==
  BaseLoaded =>
    /\ OneRecordPerRow
    /\ \A i \in 1..Len(bpPromise.value) :
         LET k == NonBlankRows[i] r == bpPromise.value[i] IN
         /\ r.organic = IsTrueText(k, N_organic)
         /\ r.usa_made = IsTrueText(k, N_usa_made)
         /\ r.active = IsTrueText(k, N_active)
         /\ r.retail_price.kind = "num"
         /\ r.retail_price.milli >= 0

----------------------------------------------------------------------------
(* C10: parseCSV quoting rule.  A comma or newline inside a quoted field is
   kept in the field and ends neither field nor row (only unquoted commas
   separate fields, only unquoted newlines end rows), and each doubled quote
   inside a quoted field gives exactly one quote character in the output. *)
C10_QuotingRule ==
  rows # NotRun =>
    /\ CountChar(OutChars(rows), COMMA) = QuotedCount(src, COMMA)
    /\ CountChar(OutChars(rows), LF) = QuotedCount(src, LF)
    /\ Len(AllFields(rows)) - Len(rows) = UnquotedCount(src, COMMA)
    /\ Len(rows) \in {UnquotedCount(src, LF), UnquotedCount(src, LF) + 1}
    /\ CountChar(OutChars(rows), QUOTE) = EscapedPairs(src)

\* a parsed text with a quoted comma and a doubled quote in one field
C10_Witness ==
  /\ rows # NotRun
  /\ QuotedCount(src, COMMA) > 0
  /\ EscapedPairs(src) > 0
  /\ Len(rows) = 1 /\ Len(rows[1]) = 1

----------------------------------------------------------------------------
(* Source lines, for statements about rows and line endings *)

\* the positions of the newlines that end a row: those outside quoted fields
RowEnds(s) == {i \in 1..Len(s) : s[i] = LF /\ ~InsideQuotes(s, i)}

\* the source line that starts after position p (0, or a row-ending newline)
LineAfter(s, p) ==
  LET later == {q \in RowEnds(s) : q > p}
      stop == IF later = {} THEN Len(s) + 1
              ELSE CHOOSE q \in later : \A x \in later : q <= x
  IN SubSeq(s, p + 1, stop - 1)

LastRowEnd(s) ==
  IF RowEnds(s) = {} THEN 0 ELSE CHOOSE q \in RowEnds(s) : \A x \in RowEnds(s) : x <= q

\* what follows the last row-ending newline
LastLine(s) == LineAfter(s, LastRowEnd(s))

EndsWithTerminator(s) == Len(s) > 0 /\ LastRowEnd(s) = Len(s)

\* the line puts at least one character into a field
HasContent(t) ==
  \/ \E i \in 1..Len(t) : t[i] # QUOTE /\ (InsideQuotes(t, i) \/ t[i] \notin {COMMA, LF, CR})
  \/ EscapedPairs(t) > 0

\* the line puts a character that trim keeps into a field
HasNonBlankContent(t) ==
  \/ \E i \in 1..Len(t) :
       /\ t[i] \notin {QUOTE} \cup WhiteSpace
       /\ InsideQuotes(t, i) \/ t[i] # COMMA
  \/ EscapedPairs(t) > 0

\* src with every row-ending newline replaced by carriage return + newline
WithCRLF(s) ==
  ConcatAll([i \in 1..Len(s) |-> IF i \in RowEnds(s) THEN <<CR, LF>> ELSE <<s[i]>>])

\* a field value written as a quoted field, its quotes doubled
QuoteField(v) ==
  <<QUOTE>> \o ConcatAll([i \in 1..Len(v) |-> IF v[i] = QUOTE THEN <<QUOTE, QUOTE>>
                                               ELSE <<v[i]>>]) \o <<QUOTE>>

LooksQuoted(s) == Len(s) >= 2 /\ s[1] = QUOTE /\ s[Len(s)] = QUOTE

----------------------------------------------------------------------------
(* C11: parseCSV line endings.  Replacing every row-ending newline of the
   input by carriage return + newline gives the same rows, and no carriage
   return is ever put into an output field, wherever it stands in the
   input. *)
C11_LineEndingTolerance ==
  rows # NotRun =>
    /\ parseCSV(WithCRLF(src)) = rows
    /\ CountChar(OutChars(rows), CR) = 0

----------------------------------------------------------------------------
(* C12: parseCSV at the end of the input.  The empty input gives no row; an
   input that ends with a row-ending newline gives one row per such newline
   and no further row; an input whose text after the last row-ending newline
   has a field separator or field content gives that text as one more, last
   row; text after the last newline that has neither gives no row. *)
C12_EndOfInput ==
  rows # NotRun =>
    /\ src = <<>> => rows = <<>>
    /\ EndsWithTerminator(src) => Len(rows) = Cardinality(RowEnds(src))
    /\ (HasContent(LastLine(src)) \/ UnquotedCount(LastLine(src), COMMA) > 0) =>
         /\ Len(rows) = Cardinality(RowEnds(src)) + 1
         /\ Len(rows[Len(rows)]) = UnquotedCount(LastLine(src), COMMA) + 1
         /\ rows[Len(rows)] # << <<>> >>
    /\ ~(HasContent(LastLine(src)) \/ UnquotedCount(LastLine(src), COMMA) > 0) =>
         Len(rows) = Cardinality(RowEnds(src))

\* a terminated row followed by an unterminated one
C12_Witness ==
  /\ rows # NotRun
  /\ Cardinality(RowEnds(src)) = 1
  /\ ~EndsWithTerminator(src)
  /\ HasContent(LastLine(src))
  /\ Len(rows) = 2

----------------------------------------------------------------------------
(* C13 as stated: every field value, written as a quoted field with its
   quotes doubled and parsed, comes back as one row of one field equal to
   the value. *)
C13_RoundTrip ==
  (rows # NotRun /\ LooksQuoted(src)) =>
    \A v \in Texts(ParseAlphabet, Len(src) - 2) :
      src = QuoteField(v) => rows = << <<v>> >>

(* C13 amended: every non-empty field value, written as a quoted field with
   its quotes doubled and parsed, comes back as one row of one field equal to
   the value; the empty value, written as two quotes, comes back as no row. *)
C13_RoundTripNonEmpty ==
  (rows # NotRun /\ LooksQuoted(src)) =>
    \A v \in Texts(ParseAlphabet, Len(src) - 2) :
      src = QuoteField(v) => rows = (IF v = <<>> THEN <<>> ELSE << <<v>> >>)

\* a value with a quote and a comma has made the round trip
C13_Witness ==
  /\ rows # NotRun
  /\ LooksQuoted(src)
  /\ \E v \in Texts(ParseAlphabet, Len(src) - 2) :
       /\ src = QuoteField(v)
       /\ \E i, j \in 1..Len(v) : v[i] = QUOTE /\ v[j] = COMMA
       /\ rows = << <<v>> >>

----------------------------------------------------------------------------
(* C14: blank rows at the parser.  Every row parseCSV returns has a field
   that is not blank after trimming, and it returns one row per source line
   that has such a field: a line of separators and white space only gives no
   row. *)
C14_ParserDropsBlankRows ==
  rows # NotRun =>
    /\ \A i \in 1..Len(rows) : SomeNonBlank(rows[i])
    /\ Len(rows) = Cardinality({p \in RowEnds(src) \cup {0} :
                                  HasNonBlankContent(LineAfter(src, p))})

----------------------------------------------------------------------------
(* Reading a rendered copy block back, for statements about its lines *)

\* the first position at or after p where sep starts in t, or 0
FirstAt(t, sep, p) ==
  LET hits == {i \in p..(Len(t) - Len(sep) + 1) : SubSeq(t, i, i + Len(sep) - 1) = sep}
  IN IF hits = {} THEN 0 ELSE CHOOSE i \in hits : \A j \in hits : i <= j

\* t cut at every occurrence of sep, left to right
RECURSIVE Split(_, _)
Split(t, sep) ==
  LET i == FirstAt(t, sep, 1) IN
  IF i = 0 THEN <<t>>
  ELSE <<SubSeq(t, 1, i - 1)>> \o Split(SubSeq(t, i + Len(sep), Len(t)), sep)

HasPrefix(t, pre) == Len(t) >= Len(pre) /\ SubSeq(t, 1, Len(pre)) = pre

After(t, pre) == SubSeq(t, Len(pre) + 1, Len(t))

\* the lines above the first blank line, and the text below it
HeaderLines(t) ==
  LET i == FirstAt(t, <<LF, LF>>, 1) IN
  IF i = 0 THEN Split(t, <<LF>>) ELSE Split(SubSeq(t, 1, i - 1), <<LF>>)

BodyBelow(t) ==
  LET i == FirstAt(t, <<LF, LF>>, 1) IN
  IF i = 0 THEN NotRun ELSE SubSeq(t, i + 2, Len(t))

TAGS_USED == <<"T", "a", "g", "s", " ", "u", "s", "e", "d", ":", " ">>

\* the tag list of a rendered block, in the order shown
TagsShown(t) ==
  LET ls == HeaderLines(t)
      line == ls[Len(ls)]
  IN IF HasPrefix(line, TAGS_USED) THEN Split(After(line, TAGS_USED), <<COMMA, SP>>)
     ELSE NotRun

Rendering == call.fn = "buildCopyBlock" /\ returned # NotRun

\* an amount with two decimals: an optional sign, digits, a point, two digits
IsMoney(t) ==
  LET u == IF t # <<>> /\ t[1] = "-" THEN Tail(t) ELSE t IN
  /\ Len(u) >= 4
  /\ u[Len(u) - 2] = "."
  /\ AllDigits(SubSeq(u, 1, Len(u) - 3))
  /\ AllDigits(SubSeq(u, Len(u) - 1, Len(u)))

----------------------------------------------------------------------------
(* C15: the feature-tag merge only adds tags.  The tags buildCopyBlock shows
   are exactly the tier, "organic" when the base is organic or the organic
   toggle is on, "usa_made" when the base is USA-made or that toggle is on,
   and "triblend" when the triblend toggle is on; a flag the base has is
   shown whatever the toggles are. *)
C15_TagMerge ==
  Rendering =>
    LET b == call.b
        fs == call.features
        shown == TagsShown(returned)
    IN /\ shown # NotRun
       /\ {shown[i] : i \in 1..Len(shown)} =
            {b.tier}
            \cup (IF b.organic \/ "organic" \in fs THEN {<<"o", "r", "g", "a", "n", "i", "c">>} ELSE {})
            \cup (IF b.usa_made \/ "usa_made" \in fs THEN {<<"u", "s", "a", "_", "m", "a", "d", "e">>} ELSE {})
            \cup (IF "triblend" \in fs THEN {<<"t", "r", "i", "b", "l", "e", "n", "d">>} ELSE {})

\* the spec's example: an organic base that is not USA-made, tier mid, with
\* only the usa_made toggle on
C15_Witness ==
  /\ Rendering
  /\ call.b.organic /\ ~call.b.usa_made /\ call.b.tier = <<"m", "i", "d">>
  /\ call.features = {"usa_made"}
  /\ TagsShown(returned) = <<<<"m", "i", "d">>, <<"o", "r", "g", "a", "n", "i", "c">>, <<"u", "s", "a", "_", "m", "a", "d", "e">>>>

----------------------------------------------------------------------------
(* C16 as stated: the first tag shown is the tier's display label (the tier
   key mapped through TIER_LABEL, an unknown key passing through), and no
   tag is shown twice. *)
NoTagTwice(shown) == \A i, j \in 1..Len(shown) : i # j => shown[i] # shown[j]

C16_TierLabelFirst ==
  Rendering =>
    LET shown == TagsShown(returned) IN
    /\ shown # NotRun
    /\ shown[1] = TierLabel(call.b.tier)
    /\ NoTagTwice(shown)

(* C16 amended: the first tag shown is the tier key itself, unmapped; the
   display label of the tier appears on the "Tier:" line of the current
   renderer only; no tag is shown twice. *)
C16_TierKeyFirst ==
  Rendering =>
    LET shown == TagsShown(returned) IN
    /\ shown # NotRun
    /\ shown[1] = call.b.tier
    /\ NoTagTwice(shown)
    /\ call.renderer = "current" =>
         HeaderLines(returned)[4] = <<"T", "i", "e", "r", ":", " ">> \o TierLabel(call.b.tier)

\* a base whose tier key has a display label of its own, with further tags
C16_Witness ==
  /\ Rendering
  /\ call.renderer = "current"
  /\ TierLabel(call.b.tier) # call.b.tier
  /\ Len(TagsShown(returned)) >= 3
  /\ TagsShown(returned)[1] = call.b.tier

----------------------------------------------------------------------------
(* C20: the shape of the copy block.  In either renderer the block is the
   five lines "Base Product Name: <label>", "Base Product Code: <code>",
   "Retail Price: $<amount with two decimals>", "Tier: <display label>",
   "Tags used: <tags>", in this order, then a blank line, then the
   description body. *)
C20_FixedShape ==
  Rendering =>
    LET ls == HeaderLines(returned)
        b == call.b
    IN /\ Len(ls) = 5
       /\ ls[1] = <<"B", "a", "s", "e", " ", "P", "r", "o", "d", "u", "c", "t", " ", "N", "a", "m", "e", ":", " ">> \o b.label
       /\ ls[2] = <<"B", "a", "s", "e", " ", "P", "r", "o", "d", "u", "c", "t", " ", "C", "o", "d", "e", ":", " ">> \o b.code
       /\ HasPrefix(ls[3], <<"R", "e", "t", "a", "i", "l", " ", "P", "r", "i", "c", "e", ":", " ", "$">>)
       /\ IsMoney(After(ls[3], <<"R", "e", "t", "a", "i", "l", " ", "P", "r", "i", "c", "e", ":", " ", "$">>))
       /\ ls[4] = <<"T", "i", "e", "r", ":", " ">> \o TierLabel(b.tier)
       /\ HasPrefix(ls[5], TAGS_USED)
       /\ BodyBelow(returned) = (IF call.renderer = "current" THEN call.body
                                 ELSE buildDescription(b))

----------------------------------------------------------------------------
(* C17: toggles and availability.  A feature is exposed in the current
   category when a base of that category has it: the organic or usa_made
   flag, or for triblend a label or fit notes that match the triblend
   pattern or the triblend tier key. *)
InCategory(b) == b.category = category

Exposed(f) ==
  \E i \in 1..Len(bases) :
    LET b == bases[i] IN
    /\ InCategory(b)
    /\ IF f = "organic" THEN b.organic
       ELSE IF f = "usa_made" THEN b.usa_made
       ELSE \/ MatchesTriblend(b.label)
            \/ MatchesTriBlend(b.fit_notes)
            \/ b.tier = <<"a", "l", "t", "_", "m", "i", "d", "_", "t", "r", "i", "b", "l", "e", "n", "d">>

\* a click on a chip whose feature is not exposed changes no toggle
UnexposedClickIdle ==
  \A f \in FeatureCodes : (ClickFeature(f) /\ ~Exposed(f)) => features' = features

(* C17 as stated: in every state every toggled-on feature is exposed in the
   current category, and a click on a chip whose feature is not exposed
   leaves the toggles as they are. *)
C17_ToggledOnlyIfExposed ==
  /\ [](\A f \in features : Exposed(f))
  /\ [][UnexposedClickIdle]_vars

(* C17 amended: in every state in which a category is selected and the
   effect of the latest category change has run, every toggled-on feature
   is exposed in the current category; a click on a chip whose feature is
   not exposed leaves the toggles as they are.  (Between a category click
   and its effect the toggles of the previous category are still on; the
   effect leaves them on when the category is empty, and the main view is
   not shown then.) *)
C17_ToggledOnlyIfExposedSettled ==
  /\ []((~effectPending /\ ~NoCategory(category)) => \A f \in features : Exposed(f))
  /\ [][UnexposedClickIdle]_vars

\* in a category that exposes usa_made and not organic, usa_made is on
C17_Witness ==
  /\ Rendered
  /\ features = {"usa_made"}
  /\ Exposed("usa_made")
  /\ ~Exposed("organic")

----------------------------------------------------------------------------
(* C18: tidy is idempotent: tidy of what tidy returned is what it returned. *)
C18_TidyIdempotent ==
  (call.fn = "tidy" /\ returned # NotRun) => tidy(returned) = returned

----------------------------------------------------------------------------
(* C19: what tidy returns has no three newlines in a row and no carriage
   return followed by a newline. *)
C19_TidyNewlines ==
  (call.fn = "tidy" /\ returned # NotRun) =>
    /\ \A i \in 1..(Len(returned) - 2) :
         ~(returned[i] = LF /\ returned[i + 1] = LF /\ returned[i + 2] = LF)
    /\ \A i \in 1..(Len(returned) - 1) : ~(returned[i] = CR /\ returned[i + 1] = LF)


----------------------------------------------------------------------------
(* What the App shows and hands to the clipboard, for statements about it *)

\* the App shows its main view (not the loading, error or empty message)
Shown == ~loading /\ error = null /\ ~NoCategory(category)

\* the text the served description file holds for a code; undefined when
\* the file is not read or holds none
OverrideOf(code) ==
  LET doc == DescDocs[server.descDoc] IN
  IF server.outcome["desc"] = "ok" /\ doc.kind = "object" /\ code \in DOMAIN doc.map
  THEN doc.map[code] ELSE undefined

HasNormalOverride(code) ==
  OverrideOf(code) # undefined /\ tidy(OverrideOf(code)) # <<>>

\* the body the selected base is to have
ExpectedBody ==
  IF HasNormalOverride(selectedBase) THEN tidy(OverrideOf(selectedBase))
  ELSE buildDescription(base)

\* this step hands a text to the clipboard: to writeText(), or through the
\* legacy path straight onto the clipboard
HandsOver == Len(writes') > Len(writes) \/ clipboard' # clipboard

Handed == IF Len(writes') > Len(writes) THEN writes'[Len(writes')] ELSE clipboard'

(* C21: the description body shown and copied for the selected base is the
   normalized override text of the base's code when there is an override
   that is not empty after normalization, and the generated fallback
   description otherwise; the body is never empty. *)
C21_OverrideElseFallback ==
  /\ [](Shown /\ BaseFound =>
          /\ BodyBelow(copyBlock) = ExpectedBody
          /\ BodyBelow(copyBlock) # <<>>)
  /\ [][/\ (CopyDescription /\ HandsOver) => Handed = ExpectedBody
        /\ (CopyAll /\ HandsOver) => BodyBelow(Handed) = ExpectedBody]_vars

\* the selected base has an override of one blank, and the generated
\* description is on the clipboard
C21_Witness ==
  /\ Shown
  /\ BaseFound
  /\ OverrideOf(selectedBase) = <<" ">>
  /\ clipboard = buildDescription(base)

\* some record loadBaseProducts returned is active and has this code
ActiveBaseCode(code) ==
  \E j \in 1..Len(bpPromise.value) :
     bpPromise.value[j].active /\ bpPromise.value[j].code = code

(* C22: in every state, every product of the inventory list, before and
   after the text filter, is enabled and carries the code of an active
   base product; a disabled variant, or a variant that belongs to no active
   base, is in neither list. *)
C22_VisibleEnabledOfActiveBase ==
  /\ \A i \in 1..Len(productsForBase) :
        productsForBase[i].enabled /\ ActiveBaseCode(productsForBase[i].base_code)
  /\ \A i \in 1..Len(visibleProducts) :
        visibleProducts[i].enabled /\ ActiveBaseCode(visibleProducts[i].base_code)
  /\ \A i \in 1..Len(prPromise.value) :
        LET p == prPromise.value[i] IN
        (~p.enabled \/ ~ActiveBaseCode(p.base_code)) =>
           \A k \in 1..Len(visibleProducts) : visibleProducts[k] # p

\* the inventory of the selected base is shown under a filter, while the
\* product file holds a disabled variant of that base and the loaded
\* products hold variants of bases that are not loaded
C22_Witness ==
  /\ Shown
  /\ filterText # <<>>
  /\ visibleProducts # <<>>
  /\ \E i \in 1..Len(prPromise.value) :
        ~prPromise.value[i].enabled /\ prPromise.value[i].base_code = selectedBase
  /\ \E i \in 1..Len(products) : ~ActiveBaseCode(products[i].base_code)

----------------------------------------------------------------------------
(* What a session loads, read off the served files alone *)

\* a read that ends with its body read
ReadsBody(s) ==
  /\ s \in Requested(server.version)
  /\ server.outcome[s] = "ok"
  /\ (server.version = 2 /\ s \in JoinSources) =>
        \A g \in JoinSources : server.outcome[g] = "ok"

\* the session loads its tables: every read a loader cannot do without
\* ends with its body read (loadDescriptions can do without its read)
LoadsTables ==
  /\ ReadsBody("bp")
  /\ ReadsBody("pr")

ServedBases ==
  IF server.version = 1 THEN loadBaseProductsV1(TextOf("bp"))
  ELSE loadBaseProducts(TextOf("bp"), TextOf("tier"), TextOf("brand"))

ServedDescriptions ==
  IF ReadsBody("desc") /\ DescDocs[server.descDoc].kind = "object"
  THEN DescDocs[server.descDoc].map ELSE <<>>

FinalBases == IF LoadsTables THEN SelectSeq(ServedBases, IsActive) ELSE <<>>

FinalProducts ==
  IF LoadsTables THEN SelectSeq(loadProducts(TextOf("pr")), IsEnabled) ELSE <<>>

FinalDescriptions == IF LoadsTables THEN ServedDescriptions ELSE <<>>

FinalCategory ==
  IF FinalBases = <<>> THEN null ELSE FinalBases[1].category

\* the first base of the first category, in the order of the table
FinalSelectedBase ==
  LET firsts == {i \in 1..Len(FinalBases) : FinalBases[i].category = FinalCategory}
  IN IF NoCategory(FinalCategory) \/ firsts = {} THEN null
     ELSE FinalBases[CHOOSE i \in firsts : \A j \in firsts : i <= j].code

(* C23: the loaded state does not depend on the order in which the reads
   end: whenever loading is over, bases, products and descriptions are
   what the served files determine; the category set when loading ends and
   the base selected by the effect that follows are what the served files
   determine. *)
C23_OrderIndependent ==
  /\ [](~loading => /\ bases = FinalBases
                    /\ products = FinalProducts
                    /\ descriptions = FinalDescriptions)
  /\ [][/\ (loading /\ ~loading') => category' = FinalCategory
        /\ (CategoryEffect /\ selectedBase = null) =>
              selectedBase' = FinalSelectedBase]_vars

\* a session of the joining loader has loaded bases, products and
\* descriptions, and its first base is selected
C23_Witness ==
  /\ server.version = 2
  /\ Shown
  /\ ~effectPending
  /\ products # <<>>
  /\ descriptions # <<>>
  /\ selectedBase = FinalSelectedBase
  /\ \A s \in Sources : net[s] = "read"

\* a request that was made is not made again, and a loader's promise that
\* is settled stays as it is
LoadsOnce ==
  /\ \A s \in Sources : net[s] # "pending" => net'[s] # "pending"
  /\ bpPromise.state # "pending" => bpPromise' = bpPromise
  /\ prPromise.state # "pending" => prPromise' = prPromise
  /\ descPromise.state # "pending" => descPromise' = descPromise

(* C24: loaded data is an immutable snapshot: once loading is over, no
   step (a category click, a base click, a feature toggle, a filter edit,
   the clear button, a copy, a write to the clipboard that settles) changes
   bases, products or descriptions or starts loading again; no request is
   made twice and no loader's result changes once it is there. *)
C24_LoadedDataImmutable ==
  [][/\ ~loading => (~loading' /\ UNCHANGED <<bases, products, descriptions>>)
     /\ LoadsOnce]_vars

\* after the load the user has changed category and base, toggled a
\* feature, typed a filter and copied, and the loaded data is as loaded
C24_Witness ==
  /\ Shown
  /\ category # FinalCategory
  /\ selectedBase # FinalSelectedBase
  /\ features # {}
  /\ filterText # <<>>
  /\ clipboard # null
  /\ bases = FinalBases
  /\ products = FinalProducts
  /\ products # <<>>

----------------------------------------------------------------------------
\* a copy of the copy-only App ends in this step without the text on the
\* clipboard: notify(label, false) sets the blocked notice on a card
CopyFails ==
  \E i \in DOMAIN timers :
     /\ i \in DOMAIN timers'
     /\ timers'[i] = timers[i] + 1
     /\ status'[i] = BLOCKED

(* C25: a copy whose clipboard write fails, the fallback included, has no
   effect on application state: the loaded products and the error are
   unchanged, and the record of what was copied is not updated as if the
   copy had succeeded. *)
C25_FailedCopyNoEffect ==
  [][CopyFails => UNCHANGED <<lastCopied, products, error>>]_vars

----------------------------------------------------------------------------
\* the selected code is the code of a loaded (active) base of the selected
\* category
SelectedCodeInCategory ==
  \E i \in 1..Len(bases) :
     /\ bases[i].code = selectedBase
     /\ bases[i].active
     /\ bases[i].category = category

(* C26: in every shown state in which the effect of the latest category
   change has run, the selected base is the code of an active base of the
   selected category, and the base whose copy block and inventory are
   shown is a base of the selected category. *)
C26_SelectedBaseInCategory ==
  Rendered => /\ SelectedCodeInCategory
              /\ BaseFound
              /\ base.category = category

----------------------------------------------------------------------------
\* the active records among those loadBaseProducts returned, by position
ActiveRows(bp) == {i \in 1..Len(bp) : bp[i].active}

ActiveRowsOf(bp, c) == {i \in ActiveRows(bp) : bp[i].category = c}

First(S) == CHOOSE i \in S : \A j \in S : i <= j

(* C27: when a load that found an active base ends, the selected category
   is the category of the first active base in the loaded sequence; a
   click on a category chip selects that category; and each run of the
   category effect, the one after the load and the one after each category
   click, selects the first active base of the selected category, in the
   order of the loaded sequence. *)
C27_SelectionFollowsRowOrder ==
  [][/\ (loading /\ ~loading' /\ error' = null /\ ActiveRows(bpPromise'.value) # {}) =>
          /\ category' = bpPromise'.value[First(ActiveRows(bpPromise'.value))].category
          /\ effectPending'
     /\ (Rendered /\ category' # category) => effectPending'
     /\ (CategoryEffect /\ ActiveRows(bpPromise.value) # {}) =>
          /\ ActiveRowsOf(bpPromise.value, category) # {}
          /\ selectedBase' =
               bpPromise.value[First(ActiveRowsOf(bpPromise.value, category))].code]_vars

----------------------------------------------------------------------------
(* C28: every change of the selected category clears the feature toggles
   and the filter text: a change of the category schedules the category
   effect, the scheduled effect runs, and when it has run the toggled-on
   set is empty and filterText is ""; a click that selects another base of
   the same category changes neither the toggles nor the filter. *)
C28_CategoryChangeClears ==
  /\ [][(Rendered /\ category' # category) => effectPending']_vars
  /\ effectPending ~> ~effectPending
  /\ [][CategoryEffect => (features' = {} /\ filterText' = <<>>)]_vars
  /\ [][(Rendered /\ category' = category /\ selectedBase' # selectedBase) =>
           UNCHANGED <<features, filterText>>]_vars

----------------------------------------------------------------------------
(* C29: the loading phase ends and does not restart: when every request
   that is under way settles, loading becomes false, after a load that
   succeeds and after one that fails; once loading is false it stays
   false and error does not change. *)
C29_LoadingEndsOnce ==
  /\ <>(~loading)
  /\ (loading /\ ~LoadsTables) ~> (~loading /\ error # null)
  /\ (loading /\ LoadsTables) ~> (~loading /\ error = null)
  /\ [][~loading => (~loading' /\ error' = error)]_vars

\* a load has failed at its first rejection, and the requests that were
\* still under way then have settled since
C29_Witness ==
  /\ ~loading
  /\ error # null
  /\ ~NetBusy
  /\ \E s \in Sources : net[s] = "read"
====
